---- MODULE Spec2Model ----
(***************************************************************************)
(* Verification model of the gemini-business2api gateway.                  *)
(*                                                                         *)
(* The module holds several independent sub-models that share one state    *)
(* vector:                                                                 *)
(*   SpecTask : the queued task service (core/base_task_service.py,        *)
(*              core/login_service.py, core/register_service.py)           *)
(*   SpecJwt  : the per-account JWT manager (core/jwt.py)                  *)
(*   SpecBind : the session-binding table (core/session_binding.py)        *)
(*   Spec     : the request orchestrator chat_impl / response_wrapper      *)
(*              (main.py)                                                  *)
(*   SpecFast, SpecSettings, SpecQuota : the orchestrator in a deployment  *)
(*              with FAST keys, with an administrator who changes the      *)
(*              failure threshold, and with an upstream that reports       *)
(*              exhausted quota inside the stream                          *)
(*   SpecAuth : verify_api_key (core/auth.py) and extract_chat_id          *)
(*   SpecHistory : the task service with a full history of finished tasks  *)
(*   SpecLog  : the stderr forwarder of a browser subprocess and the log   *)
(*              of its task                                                *)
(*   SpecPatrol : the browser sweeps of the task services                  *)
(*   SpecReplenish : the polling loop that queues register tasks           *)
(*   SpecChatId : extract_chat_id on requests that carry conversation ids  *)
(*              in several places                                          *)
(*   SpecEvict : the session-binding table at its size limit               *)
(*   SpecElement : the orchestrator with an upstream that puts error       *)
(*              elements of any code into the stream                       *)
(*   SpecParse : the orchestrator over the chunks the stream parser        *)
(*              yields                                                     *)
(*   SpecTaskLive : SpecTask with a worker that keeps taking steps         *)
(*   SpecAppend : _append_log on a task that is being cancelled            *)
(*   SpecSubprocess : run_browser_in_subprocess and its child process      *)
(*              (core/subprocess_worker.py)                                *)
(*   SpecPersist : the background task that stores the binding table       *)
(*   SpecPolling : the polling loop of the login service and the pause     *)
(*              switch of the administrator                                *)
(*   SpecCleanup : the stages that kill leftover browser processes         *)
(* SpecTask, SpecJwt and SpecBind start from Init; Spec starts from        *)
(* InitSpec, where the binding table may hold what an earlier run of the   *)
(* process persisted.  A specification moves only the variables of its     *)
(* own sub-model (the orchestrator also writes the binding table); the     *)
(* other sub-models rest in one initial state.                             *)
(*                                                                         *)
(* All request handling runs on one cooperative event loop: code between   *)
(* two suspension points (an await that really waits for I/O, a lock held  *)
(* by somebody else, a sleep, a task switch) runs atomically, so each      *)
(* action below is one such stretch of code.                               *)
(***************************************************************************)
EXTENDS Integers, Sequences, FiniteSets, TLC

(***************************************************************************)
(* Bounds of the model                                                     *)
(***************************************************************************)
MaxTasks == 2

\* how many times cancel_task is called on one running task
MaxCancelCalls == 1

\* how many get() calls reach one JWT manager
MaxGetCalls == 3

\* the wall-clock reading at which the JWT model stops advancing time
MaxJwtTime == 510

\* how many times the clock of the binding model advances
MaxBindTicks == 2

\* how many requests of the conversation reach the orchestrator
MaxRequests == 2

\* the largest configured retry.max_request_retries
MaxRetries == 1
MaxThreshold == 2

\* how many lines the child of one task writes to its stderr
MaxLines == 205

(***************************************************************************)
(* State                                                                   *)
(***************************************************************************)
\* the task service
VARIABLES
    kind,                  \* which subclass this service instance is
    tasks,                 \* BaseTaskService._tasks : id -> task record
    nextTaskId,            \* stands for uuid.uuid4(): the next fresh id
    pending_task_ids,      \* BaseTaskService._pending_task_ids (deque)
    current_task_id,       \* BaseTaskService._current_task_id
    worker_task,           \* BaseTaskService._worker_task (state of _run_worker)
    current_asyncio_task,  \* BaseTaskService._current_asyncio_task (the task body)
    clock,                 \* successive readings of time.time()
    workers_started        \* history: how many times _run_worker was spawned

taskVars == <<kind, tasks, nextTaskId, pending_task_ids, current_task_id,
              worker_task, current_asyncio_task, clock, workers_started>>

\* the JWT manager of one account
VARIABLES
    jwt,            \* JWTManager.jwt : 0 for "", else the number of the token
    expires,        \* JWTManager.expires
    refreshing,     \* JWTManager._refreshing
    jwt_lock,       \* JWTManager._lock : the process holding it, or NoHolder
    jwt_waiters,    \* the FIFO of processes blocked in _lock.acquire()
    jwt_pc,         \* where each process stands
    current_time,   \* the local current_time of each get() call
    jwt_ret,        \* what each get() call returned
    now             \* time.time()

jwtVars == <<jwt, expires, refreshing, jwt_lock, jwt_waiters, jwt_pc,
             current_time, jwt_ret, now>>

\* the session-binding manager
VARIABLES
    bindings,      \* SessionBindingManager._bindings, in dict insertion order
    dirty,         \* SessionBindingManager._dirty
    bind_now,      \* time.time()
    history        \* history: the last mutating call made on ObservedChat

bindVars == <<bindings, dirty, bind_now, history>>

\* each sub-model leaves the variables of the others alone
\* the orchestrator
VARIABLES
    MAX_REQUEST_RETRIES,    \* main.MAX_REQUEST_RETRIES (retry.max_request_retries)
    accounts,               \* multi_account_mgr.accounts : id -> account state
    account_index,          \* the pool's rotating index: position of the last pick
    ACCOUNT_FAILURE_THRESHOLD, \* main.ACCOUNT_FAILURE_THRESHOLD, and each account's copy
    api_key_modes,          \* the modes of the API keys configured (basic.api_keys)
    global_session_cache,   \* multi_account_mgr.global_session_cache: key -> <<>> or <<entry>>
    session_lock,           \* the conversation's lock: the request holding it
    session_waiters,        \* the FIFO of requests blocked on the lock
    sessions,               \* upstream sessions: sessions[n] is the account of session n
    requests,               \* the locals of each request and where it stands
    last_failure            \* history: the latest failed attempt and its handler calls

chatVars == <<MAX_REQUEST_RETRIES, ACCOUNT_FAILURE_THRESHOLD, api_key_modes,
              accounts, account_index,
              global_session_cache,
              session_lock, session_waiters, sessions, requests, last_failure>>

\* the authentication of one request to /v1/chat/completions
VARIABLES
    basic_config,          \* config.basic: api_key and api_keys
    http_request,          \* what the client sent
    key_config,            \* what verify_api_key returned or raised
    chat_id_for_binding    \* what extract_chat_id returned: <<>> or <<chat id>>

authVars == <<basic_config, http_request, key_config, chat_id_for_binding>>

\* the stderr forwarder of a browser subprocess
VARIABLES
    lines_read,            \* history: how many LOG: lines _read_stderr_logs forwarded
    last_append            \* history: the last call of _append_log made by append_log

logVars == <<lines_read, last_append>>

\* the task services of the process and the browsers of their subprocesses
VARIABLES
    all_instances,         \* BaseTaskService._all_instances: service -> status of its task
    child,                 \* service -> is run_browser_in_subprocess waiting for its child
    browsers,              \* service -> does a browser process of its child live
    memory_release,        \* service -> is a _force_memory_release scheduled
    last_sweep             \* history: the latest sweep that killed processes

patrolVars == <<all_instances, child, browsers, memory_release, last_sweep>>

\* the polling loop of the login service
VARIABLES
    last_tick,             \* history: what the latest replenish check saw and queued
    auto_refresh_paused,   \* LoginService._auto_refresh_paused
    check_tasks,           \* the check_and_refresh tasks a resume created, not yet run
    last_poll              \* history: the latest check_and_refresh and who called it

tickVars == <<last_tick, auto_refresh_paused, check_tasks, last_poll>>

\* the size limit of the binding table
VARIABLES
    max_bindings           \* SessionBindingManager._max_bindings

capVars == <<max_bindings>>

\* one call of run_browser_in_subprocess
VARIABLES
    run,                   \* the call's position, its child and what it returned
    process,               \* a process of the system, as psutil shows it to the sweeps
    killed_by              \* history: the sweep stages that have killed the process

subVars == <<run, process, killed_by>>

\* the persist task of the binding manager and the database
VARIABLES
    store,                 \* kv_store["session_bindings"]: the last table written
    snapshot,              \* the local data of persist_to_db
    persist_pc             \* where start_persist_task stands

persistVars == <<store, snapshot, persist_pc>>

\* the sub-models that were added later
extVars == <<patrolVars, tickVars, capVars, subVars, persistVars>>

\* what the actions of each sub-model leave alone
OnlyTask == UNCHANGED <<jwtVars, bindVars, chatVars, authVars, logVars, extVars>>
OnlyJwt == UNCHANGED <<taskVars, bindVars, chatVars, authVars, logVars, extVars>>
OnlyBind == UNCHANGED <<taskVars, jwtVars, chatVars, authVars, logVars, extVars>>
OnlyChat == UNCHANGED <<taskVars, jwtVars, bind_now, history, authVars, logVars, extVars>>
OnlyAuth == UNCHANGED <<taskVars, jwtVars, bindVars, chatVars, logVars, extVars>>

(***************************************************************************)
(* ======================  TASK SERVICE  ================================  *)
(***************************************************************************)

NoTask == 0
NoTime == 0

PENDING == "pending"
RUNNING == "running"
SUCCESS == "success"
FAILED == "failed"
CANCELLED == "cancelled"

TaskStatus == {PENDING, RUNNING, SUCCESS, FAILED, CANCELLED}
FinishedStatus == {SUCCESS, FAILED, CANCELLED}

AccountIds == {"a1", "a2"}

\* RegisterTask.count after max(1, min(30, count)); the model uses the low end
RegisterCounts == {1, 2}

LogCap == 200

\* the guard prefixes of _append_log that never raise
safe_messages == {"cancel requested:", "task cancelled",
                  "task cancelled while pending",
                  "login task cancelled:", "register task cancelled:"}

BaseTask(n, accts) ==
    [status |-> PENDING, progress |-> 0, success_count |-> 0, fail_count |-> 0,
     finished_at |-> NoTime, results |-> 0, error |-> FALSE, logs |-> <<>>,
     cancel_requested |-> FALSE, count |-> n, account_ids |-> accts]

NoBody == [task |-> NoTask, pc |-> "none", must_cancel |-> FALSE,
           outcome |-> "none", left |-> 0, pending_configs |-> FALSE]

\* _append_log, the buffer part: append and keep the newest LogCap entries
LogAppend(t, message) ==
    LET l == Append(t.logs, message)
    IN  [t EXCEPT !.logs = IF Len(l) > LogCap
                           THEN SubSeq(l, Len(l) - LogCap + 1, Len(l))
                           ELSE l]

\* _append_log, the cooperative-cancel part: does the call raise TaskCancelledError
LogRaises(t, message) == t.cancel_requested /\ message \notin safe_messages

ResultCap == 200

\* _append_result is called by both task bodies; results are kept up to ResultCap
append_result(t) ==
    [t EXCEPT !.results = IF @ + 1 > ResultCap THEN ResultCap ELSE @ + 1]

MaxCompletedTasks == 10

Finished(tk) == {i \in DOMAIN tk : tk[i].status \in FinishedStatus}

RECURSIVE RemoveOldest(_, _)
RemoveOldest(tk, k) ==
    IF k = 0 THEN tk
    ELSE LET fin == Finished(tk)
             oldest == CHOOSE i \in fin : \A j \in fin :
                          \/ tk[i].finished_at < tk[j].finished_at
                          \/ tk[i].finished_at = tk[j].finished_at /\ i <= j
         IN  RemoveOldest([i \in DOMAIN tk \ {oldest} |-> tk[i]], k - 1)

\* _cleanup_finished_tasks: keep the newest MaxCompletedTasks finished tasks
cleanup_finished_tasks(tk) ==
    IF Cardinality(Finished(tk)) > MaxCompletedTasks
    THEN RemoveOldest(tk, Cardinality(Finished(tk)) - MaxCompletedTasks)
    ELSE tk

\* _get_active_account_ids
get_active_account_ids(tk) ==
    UNION {tk[i].account_ids : i \in {j \in DOMAIN tk : tk[j].status \in {PENDING, RUNNING}}}

WorkerDone == worker_task \in {"none", "done", "crashed"}

\* _enqueue_task: queue the id and start a worker when none is alive
enqueue_task(id) ==
    /\ pending_task_ids' = Append(pending_task_ids, id)
    /\ worker_task' = IF WorkerDone THEN "scheduled" ELSE worker_task
    /\ workers_started' = IF WorkerDone THEN workers_started + 1 ELSE workers_started

\* "a register task is already running"
RegisterRunning ==
    /\ current_task_id # NoTask
    /\ current_task_id \in DOMAIN tasks
    /\ tasks[current_task_id].status = RUNNING

\* register_count = max(1, min(30, int(register_count)))
register_count(n) == IF n < 1 THEN 1 ELSE IF n > 30 THEN 30 ELSE n

\* start_register from the test for a running task on
queue_register(n) ==
    /\ ~RegisterRunning
    /\ tasks' = tasks @@ (nextTaskId :>
           LogAppend(BaseTask(register_count(n), {}), "register task queued"))
    /\ enqueue_task(nextTaskId)
    /\ current_task_id' = nextTaskId
    /\ nextTaskId' = nextTaskId + 1
    /\ UNCHANGED <<kind, current_asyncio_task, clock>>

\* RegisterService.start_register (the ValueError exits change nothing)
start_register(n) ==
    /\ kind = "register"
    /\ nextTaskId <= MaxTasks
    /\ queue_register(n)
    /\ OnlyTask

\* start_login without the test against the active tasks
start_login_NoDedup(account_ids) ==
    /\ kind = "refresh"
    /\ nextTaskId <= MaxTasks
    /\ account_ids # {}
    /\ tasks' = tasks @@ (nextTaskId :>
           LogAppend(BaseTask(Cardinality(account_ids), account_ids),
                     "create refresh task"))
    /\ enqueue_task(nextTaskId)
    /\ nextTaskId' = nextTaskId + 1
    /\ UNCHANGED <<kind, current_task_id, current_asyncio_task, clock>>
    /\ OnlyTask

\* LoginService.start_login: accounts already in an active task are dropped
start_login(account_ids) ==
    /\ kind = "refresh"
    /\ nextTaskId <= MaxTasks
    /\ LET new_account_ids == account_ids \ get_active_account_ids(tasks)
       IN  /\ new_account_ids # {}
           /\ tasks' = tasks @@ (nextTaskId :>
                  LogAppend(BaseTask(Cardinality(new_account_ids), new_account_ids),
                            "create refresh task"))
    /\ enqueue_task(nextTaskId)
    /\ nextTaskId' = nextTaskId + 1
    /\ UNCHANGED <<kind, current_task_id, current_asyncio_task, clock>>
    /\ OnlyTask

\* the variant of PickNext that takes the newest pending task
RECURSIVE PickNext_Newest(_, _, _, _)
PickNext_Newest(tk, pend, cur, clk) ==
    IF pend = <<>>
    THEN [tasks |-> tk, pending |-> pend, current |-> cur, clock |-> clk, picked |-> NoTask]
    ELSE LET id == pend[Len(pend)]
             rest == SubSeq(pend, 1, Len(pend) - 1)
         IN  IF id \notin DOMAIN tk \/ tk[id].status # PENDING
             THEN PickNext_Newest(tk, rest, cur, clk)
             ELSE IF tk[id].cancel_requested
             THEN PickNext_Newest([tk EXCEPT ![id].status = CANCELLED,
                                             ![id].finished_at = clk],
                                  rest, NoTask, clk + 1)
             ELSE [tasks |-> [tk EXCEPT ![id] = LogAppend([@ EXCEPT !.status = RUNNING],
                                                         "task started")],
                   pending |-> rest, current |-> id, clock |-> clk, picked |-> id]

\* The head of _run_worker's loop together with the start of _run_one_task:
\* drop ids that are gone or not pending, take the first pending task and
\* mark it running.  picked = NoTask when the queue ran empty.
RECURSIVE PickNext(_, _, _, _)
PickNext(tk, pend, cur, clk) ==
    IF pend = <<>>
    THEN [tasks |-> tk, pending |-> pend, current |-> cur, clock |-> clk, picked |-> NoTask]
    ELSE LET id == Head(pend)
         IN  IF id \notin DOMAIN tk \/ tk[id].status # PENDING
             THEN PickNext(tk, Tail(pend), cur, clk)
             ELSE IF tk[id].cancel_requested
             THEN PickNext([tk EXCEPT ![id].status = CANCELLED, ![id].finished_at = clk],
                           Tail(pend), NoTask, clk + 1)
             ELSE [tasks |-> [tk EXCEPT ![id] = LogAppend([@ EXCEPT !.status = RUNNING],
                                                         "task started")],
                   pending |-> Tail(pend), current |-> id, clock |-> clk, picked |-> id]

\* applies the outcome of PickNext to the service
WorkerContinue(tk, cur, clk) ==
    LET p == PickNext(tk, pending_task_ids, cur, clk)
    IN  /\ tasks' = p.tasks
        /\ pending_task_ids' = p.pending
        /\ current_task_id' = p.current
        /\ clock' = p.clock
        /\ IF p.picked = NoTask
           THEN /\ worker_task' = "done"
                /\ current_asyncio_task' = NoBody
           ELSE /\ worker_task' = "blocked"
                /\ current_asyncio_task' =
                       [NoBody EXCEPT !.task = p.picked, !.pc = "created",
                                      !.left = p.tasks[p.picked].count]

\* _run_worker, first run after asyncio.create_task
run_worker ==
    /\ worker_task = "scheduled"
    /\ WorkerContinue(tasks, current_task_id, clock)
    /\ UNCHANGED <<kind, nextTaskId, workers_started>>
    /\ OnlyTask

CancelledMessage == IF kind = "refresh" THEN "login task cancelled:"
                    ELSE "register task cancelled:"

\* Finalize that sets the final status but forgets finished_at
Finalize_NoFinishedAt(t, pending_configs, saveFails, clk) ==
    [task |-> LogAppend([t EXCEPT !.status = IF t.cancel_requested THEN CANCELLED
                                              ELSE IF t.fail_count = 0 THEN SUCCESS
                                              ELSE FAILED],
                        "task finished"),
     outcome |-> "ok", clear |-> TRUE, clock |-> clk]

\* The tail of both task bodies (login_service.py 145-172, register_service.py
\* 134-178): save the collected configs, set the final status and finished_at.
\* outcome "tce" = a TaskCancelledError left the body.
Finalize(t, pending_configs, saveFails, clk) ==
    LET saved   == IF pending_configs /\ ~saveFails THEN LogAppend(t, "saved configs") ELSE t
        excInTry == pending_configs /\ (saveFails \/ LogRaises(t, "saved configs"))
        failed  == [saved EXCEPT !.error = TRUE, !.status = FAILED, !.finished_at = clk]
        final   == [saved EXCEPT
                      !.status = IF saved.cancel_requested THEN CANCELLED
                                 ELSE IF saved.fail_count = 0 THEN SUCCESS ELSE FAILED,
                      !.finished_at = clk]
    IN  IF excInTry
        THEN [task |-> LogAppend(failed, "save config failed"),
              outcome |-> IF LogRaises(failed, "save config failed") THEN "tce" ELSE "ok",
              clear |-> ~LogRaises(failed, "save config failed"),
              clock |-> clk + 1]
        ELSE [task |-> LogAppend(final, "task finished"),
              outcome |-> IF LogRaises(final, "task finished") THEN "tce" ELSE "ok",
              clear |-> (kind = "register") \/ ~LogRaises(final, "task finished"),
              clock |-> clk + 1]

\* The head of one loop iteration up to the await of run_in_executor; when the
\* loop is left instead (cancel seen, or nothing left) the body runs to its end.
BodyAdvance(t, b, saveFails, clk) ==
    IF b.left > 0 /\ ~t.cancel_requested
    THEN [task |-> LogAppend(t, "progress"), body |-> [b EXCEPT !.pc = "exec"],
          clear |-> FALSE, clock |-> clk]
    ELSE LET t1 == IF b.left > 0 THEN LogAppend(t, CancelledMessage) ELSE t
             f  == Finalize(t1, b.pending_configs, saveFails, clk)
         IN  [task |-> f.task, body |-> [b EXCEPT !.pc = "done", !.outcome = f.outcome],
              clear |-> f.clear, clock |-> f.clock]

ApplyBody(id, r) ==
    /\ tasks' = [tasks EXCEPT ![id] = r.task]
    /\ current_asyncio_task' = r.body
    /\ current_task_id' = IF r.clear THEN NoTask ELSE current_task_id
    /\ clock' = r.clock
    /\ UNCHANGED <<kind, nextTaskId, pending_task_ids, worker_task, workers_started>>

BodyLive == current_asyncio_task.pc \in {"created", "exec", "sleep"}

\* _run_login_async / _run_register_async from their first line to the first await
body_start ==
    /\ current_asyncio_task.pc = "created"
    /\ ~current_asyncio_task.must_cancel
    /\ LET id == current_asyncio_task.task
           t  == tasks[id]
           t1 == LogAppend(t, "body started")
       IN  \E loadFails \in BOOLEAN, saveFails \in BOOLEAN :
             IF LogRaises(t, "body started")
             THEN ApplyBody(id, [task |-> t1, clear |-> FALSE, clock |-> clock,
                     body |-> [current_asyncio_task EXCEPT !.pc = "done", !.outcome = "tce"]])
             ELSE IF kind = "refresh" /\ loadFails
             THEN ApplyBody(id, [task |-> t1, clear |-> FALSE, clock |-> clock,
                     body |-> [current_asyncio_task EXCEPT !.pc = "done", !.outcome = "exc"]])
             ELSE ApplyBody(id, BodyAdvance(t1, current_asyncio_task, saveFails, clock))
    /\ OnlyTask

\* the body resumes from run_in_executor with the result of _refresh_one / _register_one
exec_done ==
    /\ current_asyncio_task.pc = "exec"
    /\ ~current_asyncio_task.must_cancel
    /\ LET id == current_asyncio_task.task
           t  == tasks[id]
           b  == current_asyncio_task
       IN  \E res \in {"success", "fail", "tce"}, saveFails \in BOOLEAN :
             IF res = "tce"
             THEN /\ t.cancel_requested
                  /\ ApplyBody(id, BodyAdvance([t EXCEPT !.cancel_requested = TRUE],
                                              b, saveFails, clock))
             ELSE LET t1 == append_result([t EXCEPT !.progress = @ + 1])
                      t2 == IF res = "success"
                            THEN LogAppend([t1 EXCEPT !.success_count = @ + 1], "task success")
                            ELSE LogAppend([t1 EXCEPT !.fail_count = @ + 1], "task failed")
                      b1 == [b EXCEPT !.left = @ - 1,
                                      !.pending_configs = @ \/ res = "success"]
                  IN  IF LogRaises(t1, "task success")
                      THEN ApplyBody(id, [task |-> t2, clear |-> FALSE, clock |-> clock,
                              body |-> [b1 EXCEPT !.pc = "done", !.outcome = "tce"]])
                      ELSE IF kind = "refresh" /\ b1.left > 0
                      THEN ApplyBody(id, [task |-> t2, clear |-> FALSE, clock |-> clock,
                              body |-> [b1 EXCEPT !.pc = "sleep"]])
                      ELSE ApplyBody(id, BodyAdvance(t2, b1, saveFails, clock))
    /\ OnlyTask

\* the login body resumes from asyncio.sleep between two accounts
sleep_done ==
    /\ current_asyncio_task.pc = "sleep"
    /\ ~current_asyncio_task.must_cancel
    /\ \E saveFails \in BOOLEAN :
         ApplyBody(current_asyncio_task.task,
                   BodyAdvance(tasks[current_asyncio_task.task], current_asyncio_task,
                               saveFails, clock))
    /\ OnlyTask

\* Task.cancel() was called on the body: CancelledError is thrown at its await
cancel_delivered ==
    /\ BodyLive
    /\ current_asyncio_task.must_cancel
    /\ current_asyncio_task' = [current_asyncio_task EXCEPT !.pc = "done",
                                                            !.outcome = "cancelled"]
    /\ UNCHANGED <<kind, tasks, nextTaskId, pending_task_ids, current_task_id,
                   worker_task, clock, workers_started>>
    /\ OnlyTask

\* AfterBody without the `except Exception` clause: a failed body leaves the
\* task running
AfterBody_NoExcept(t, outcome, clk) ==
    IF outcome \in {"cancelled", "tce"}
    THEN LogAppend([t EXCEPT !.cancel_requested = TRUE, !.status = CANCELLED,
                             !.finished_at = clk], "task cancelled")
    ELSE t

\* the except clauses of _run_one_task: the task record after the body ended
AfterBody(t, outcome, clk) ==
    IF outcome \in {"cancelled", "tce"}
    THEN LogAppend([t EXCEPT !.cancel_requested = TRUE, !.status = CANCELLED,
                             !.finished_at = clk], "task cancelled")
    ELSE IF outcome = "exc"
    THEN LogAppend([t EXCEPT !.status = FAILED, !.error = TRUE, !.finished_at = clk],
                   "task error")
    ELSE t

\* _run_one_task after `await self._current_asyncio_task`, its finally block, and
\* the rest of _run_worker up to the next await
run_one_task_end ==
    /\ worker_task = "blocked"
    /\ current_asyncio_task.pc = "done"
    /\ LET id      == current_asyncio_task.task
           outcome == current_asyncio_task.outcome
           t1      == AfterBody(tasks[id], outcome, clock)
           clk     == IF outcome = "ok" THEN clock ELSE clock + 1
           tk      == cleanup_finished_tasks([tasks EXCEPT ![id] = t1])
           crash   == outcome = "exc" /\ LogRaises(tasks[id], "task error")
       IN  IF crash
           THEN /\ tasks' = tk
                /\ clock' = clk
                /\ current_asyncio_task' = NoBody
                /\ worker_task' = "crashed"
                /\ UNCHANGED <<pending_task_ids, current_task_id>>
           ELSE WorkerContinue(tk, IF current_task_id = id THEN NoTask ELSE current_task_id,
                               clk)
    /\ UNCHANGED <<kind, nextTaskId, workers_started>>
    /\ OnlyTask

CancelCalls(t) == Cardinality({i \in 1..Len(t.logs) : t.logs[i] = "cancel requested:"})

RECURSIVE RemoveFirst(_, _)
RemoveFirst(q, x) ==
    IF q = <<>> THEN q
    ELSE IF Head(q) = x THEN Tail(q) ELSE <<Head(q)>> \o RemoveFirst(Tail(q), x)

\* cancel_task without the status checks: any task is marked cancelled
cancel_task_AnyStatus(id) ==
    /\ id \in DOMAIN tasks
    /\ CancelCalls(tasks[id]) < MaxCancelCalls
    /\ tasks' = [tasks EXCEPT ![id] =
           LogAppend([@ EXCEPT !.cancel_requested = TRUE, !.status = CANCELLED,
                               !.finished_at = clock], "cancel requested:")]
    /\ pending_task_ids' = RemoveFirst(pending_task_ids, id)
    /\ clock' = clock + 1
    /\ UNCHANGED <<kind, nextTaskId, current_task_id, worker_task, current_asyncio_task,
                   workers_started>>
    /\ OnlyTask

\* BaseTaskService.cancel_task (calls that change nothing are left out)
cancel_task(id) ==
    /\ id \in DOMAIN tasks
    /\ \/ /\ tasks[id].status = PENDING
          /\ pending_task_ids' = RemoveFirst(pending_task_ids, id)
          /\ tasks' = [tasks EXCEPT ![id] =
                 LogAppend([@ EXCEPT !.cancel_requested = TRUE, !.status = CANCELLED,
                                     !.finished_at = clock],
                           "task cancelled while pending")]
          /\ clock' = clock + 1
          /\ UNCHANGED current_asyncio_task
       \/ /\ tasks[id].status = RUNNING
          /\ CancelCalls(tasks[id]) < MaxCancelCalls
          /\ tasks' = [tasks EXCEPT ![id] =
                 LogAppend([@ EXCEPT !.cancel_requested = TRUE], "cancel requested:")]
          /\ current_asyncio_task' =
                 IF BodyLive THEN [current_asyncio_task EXCEPT !.must_cancel = TRUE]
                 ELSE current_asyncio_task
          /\ UNCHANGED <<pending_task_ids, clock>>
    /\ UNCHANGED <<kind, nextTaskId, current_task_id, worker_task, workers_started>>
    /\ OnlyTask

InitTask ==
    /\ kind \in {"register", "refresh"}
    /\ tasks = <<>>
    /\ nextTaskId = 1
    /\ pending_task_ids = <<>>
    /\ current_task_id = NoTask
    /\ worker_task = "none"
    /\ current_asyncio_task = NoBody
    /\ clock = 1
    /\ workers_started = 0

\* ---- the stderr forwarder ------------------------------------------------
\* the n-th line "LOG:<level>:<message>" of the child, as log_cb hands it on
LineMessage(n) == "line " \o ToString(n)
Lines == {LineMessage(n) : n \in 1..MaxLines}

\* _read_stderr_logs reads one LOG: line while the body waits in
\* run_in_executor: log_cb -> _append_log; what _append_log raises is dropped
\* (except Exception: pass)
log_cb ==
    /\ current_asyncio_task.pc = "exec"
    /\ lines_read < MaxLines
    /\ tasks' = [tasks EXCEPT ![current_asyncio_task.task] =
                     LogAppend(@, LineMessage(lines_read + 1))]
    /\ lines_read' = lines_read + 1
    /\ UNCHANGED last_append
    /\ UNCHANGED <<kind, nextTaskId, pending_task_ids, current_task_id, worker_task,
                   current_asyncio_task, clock, workers_started>>
    /\ UNCHANGED <<jwtVars, bindVars, chatVars, authVars, extVars>>

\* ---- _append_log called with a message text ------------------------------
\* the messages the services and the child's log lines hand to _append_log
AppendMessages ==
    {"task started", "task error: E", "task cancelled: r",
     "task cancelled while pending: r", "cancel requested: r", "cancel requested",
     "login task cancelled: r", "register task cancelled: r", "login task started",
     "cancelled task", "task", ""}

\* a message text as the sequence of its words and punctuation marks
words ==
    [x \in safe_messages \cup AppendMessages |->
        CASE x = "cancel requested:" -> <<"cancel", "requested", ":">>
          [] x = "task cancelled" -> <<"task", "cancelled">>
          [] x = "task cancelled while pending" -> <<"task", "cancelled", "while", "pending">>
          [] x = "login task cancelled:" -> <<"login", "task", "cancelled", ":">>
          [] x = "register task cancelled:" -> <<"register", "task", "cancelled", ":">>
          [] x = "task started" -> <<"task", "started">>
          [] x = "task error: E" -> <<"task", "error", ":", "E">>
          [] x = "task cancelled: r" -> <<"task", "cancelled", ":", "r">>
          [] x = "task cancelled while pending: r" ->
                 <<"task", "cancelled", "while", "pending", ":", "r">>
          [] x = "cancel requested: r" -> <<"cancel", "requested", ":", "r">>
          [] x = "cancel requested" -> <<"cancel", "requested">>
          [] x = "login task cancelled: r" -> <<"login", "task", "cancelled", ":", "r">>
          [] x = "register task cancelled: r" ->
                 <<"register", "task", "cancelled", ":", "r">>
          [] x = "login task started" -> <<"login", "task", "started">>
          [] x = "cancelled task" -> <<"cancelled", "task">>
          [] x = "task" -> <<"task">>
          [] x = "" -> <<>>]

\* the variant of startswith that asks for the whole message
startswith_whole(message, x) == message = x

\* str.startswith
startswith(message, x) ==
    Len(message) >= Len(x) /\ SubSeq(message, 1, Len(x)) = x

\* the test at the end of _append_log: TaskCancelledError is raised
append_log_raises(t, message) ==
    /\ t.cancel_requested
    /\ ~\E x \in safe_messages : startswith(words[message], words[x])

MaxAppends == 3

NoAppend == [task |-> NoTask, message |-> "", cancel_requested |-> FALSE,
             recorded |-> FALSE, raised |-> FALSE]

\* _append_log(task, level, message): the entry is recorded, then the
\* cooperative-cancel test raises or returns
append_log(id, message) ==
    /\ id \in DOMAIN tasks
    /\ Len(tasks[id].logs) < MaxAppends
    /\ tasks' = [tasks EXCEPT ![id] = LogAppend(@, message)]
    /\ last_append' = [task |-> id, message |-> message,
                       cancel_requested |-> tasks[id].cancel_requested,
                       recorded |-> /\ tasks'[id].logs # <<>>
                                    /\ tasks'[id].logs[Len(tasks'[id].logs)] = message,
                       raised |-> append_log_raises(tasks[id], message)]
    /\ UNCHANGED <<kind, nextTaskId, pending_task_ids, current_task_id, worker_task,
                   current_asyncio_task, clock, workers_started, lines_read>>
    /\ UNCHANGED <<jwtVars, bindVars, chatVars, authVars, extVars>>

\* a register service whose only task waits for its browser subprocess, its
\* log still empty of the entries the model cuts off
InitAppending ==
    /\ kind = "register"
    /\ tasks = <<[BaseTask(1, {}) EXCEPT !.status = RUNNING]>>
    /\ nextTaskId = 2
    /\ pending_task_ids = <<>>
    /\ current_task_id = 1
    /\ worker_task = "blocked"
    /\ current_asyncio_task = [NoBody EXCEPT !.task = 1, !.pc = "exec", !.left = 1]
    /\ clock = 1
    /\ workers_started = 1

AppendStep ==
    \/ \E id \in 1..MaxTasks, message \in AppendMessages : append_log(id, message)
    \/ \E id \in 1..MaxTasks : cancel_task(id)

InitLog == lines_read = 0 /\ last_append = NoAppend

\* a register service whose only task waits for its browser subprocess
InitRunning ==
    /\ kind = "register"
    /\ tasks = <<[LogAppend(LogAppend(LogAppend(
                     LogAppend(BaseTask(1, {}), "register task queued"),
                     "task started"), "body started"), "progress")
                  EXCEPT !.status = RUNNING]>>
    /\ nextTaskId = 2
    /\ pending_task_ids = <<>>
    /\ current_task_id = 1
    /\ worker_task = "blocked"
    /\ current_asyncio_task = [NoBody EXCEPT !.task = 1, !.pc = "exec", !.left = 1]
    /\ clock = 1
    /\ workers_started = 1

LogStep ==
    \/ log_cb
    \/ \E id \in 1..MaxTasks : cancel_task(id)

\* ---- the replenish check of the polling loop -----------------------------
MIN_AVAILABLE_ACCOUNTS == 21

\* what _compute_available_account_count returns at a tick
AvailableCounts == (MIN_AVAILABLE_ACCOUNTS - 2)..MIN_AVAILABLE_ACCOUNTS

NoTick == [available |-> MIN_AVAILABLE_ACCOUNTS, running |-> FALSE,
           task |-> NoTask, count |-> 0]

\* LoginService.check_and_recycle_expired_accounts from the count of the
\* available accounts on; the ValueError of start_register is caught and logged
check_and_recycle_expired_accounts(available_count) ==
    /\ kind = "register"
    /\ LET deficit == IF MIN_AVAILABLE_ACCOUNTS - available_count > 0
                      THEN MIN_AVAILABLE_ACCOUNTS - available_count ELSE 0
       IN  IF deficit > 0 /\ ~RegisterRunning
           THEN /\ nextTaskId <= MaxTasks
                /\ queue_register(deficit)
                /\ last_tick' = [available |-> available_count, running |-> FALSE,
                                 task |-> nextTaskId, count |-> register_count(deficit)]
           ELSE /\ UNCHANGED taskVars
                /\ last_tick' = [available |-> available_count,
                                 running |-> RegisterRunning,
                                 task |-> NoTask, count |-> 0]
    /\ UNCHANGED <<auto_refresh_paused, check_tasks, last_poll>>
    /\ UNCHANGED <<jwtVars, bindVars, chatVars, authVars, logVars, patrolVars, capVars,
                   subVars, persistVars>>

\* ---- the polling loop of the login service and its pause switch ----------
NoPoll == [by |-> "none", paused |-> FALSE, available |-> MIN_AVAILABLE_ACCOUNTS,
           expiring |-> {}, enqueued |-> FALSE]

MaxCheckTasks == 2

OnlyPoll == UNCHANGED <<jwtVars, bindVars, chatVars, authVars, logVars, patrolVars,
                        capVars, subVars, persistVars>>

\* the polling loop with a refresh phase that does not look at the switch
refresh_phase_runs_Always(paused) == TRUE

\* "if not self._auto_refresh_paused" in start_polling
refresh_phase_runs(paused) == ~paused

\* does check_and_refresh enqueue a task: some account expires soon and is in
\* no active task
enqueues(expiring) == expiring \ get_active_account_ids(tasks) # {}

\* check_and_refresh: _get_expiring_accounts, then start_login
check_and_refresh(expiring) ==
    IF enqueues(expiring)
    THEN /\ nextTaskId <= MaxTasks
         /\ LET new_account_ids == expiring \ get_active_account_ids(tasks)
            IN  tasks' = tasks @@ (nextTaskId :>
                    LogAppend(BaseTask(Cardinality(new_account_ids), new_account_ids),
                              "create refresh task"))
         /\ enqueue_task(nextTaskId)
         /\ nextTaskId' = nextTaskId + 1
         /\ UNCHANGED <<kind, current_task_id, current_asyncio_task, clock>>
    ELSE UNCHANGED taskVars

\* one turn of the loop of start_polling: the recycle and replenish check
\* (the register task it asks for belongs to the register service), then the
\* refresh check unless the switch is set
polling_tick(available_count, expiring) ==
    /\ kind = "refresh"
    /\ LET deficit == IF MIN_AVAILABLE_ACCOUNTS - available_count > 0
                      THEN MIN_AVAILABLE_ACCOUNTS - available_count ELSE 0
       IN  last_tick' = [available |-> available_count, running |-> FALSE,
                         task |-> NoTask,
                         count |-> IF deficit > 0 THEN register_count(deficit) ELSE 0]
    /\ IF refresh_phase_runs(auto_refresh_paused)
       THEN /\ check_and_refresh(expiring)
            /\ last_poll' = [by |-> "loop", paused |-> auto_refresh_paused,
                             available |-> available_count, expiring |-> expiring,
                             enqueued |-> enqueues(expiring)]
       ELSE /\ UNCHANGED taskVars
            /\ last_poll' = [by |-> "loop", paused |-> auto_refresh_paused,
                             available |-> available_count, expiring |-> expiring,
                             enqueued |-> FALSE]
    /\ UNCHANGED <<auto_refresh_paused, check_tasks>>
    /\ OnlyPoll

\* POST /admin/auto-refresh/pause
admin_pause_auto_refresh ==
    /\ kind = "refresh"
    /\ ~auto_refresh_paused
    /\ auto_refresh_paused' = TRUE
    /\ UNCHANGED <<taskVars, last_tick, check_tasks, last_poll>>
    /\ OnlyPoll

\* POST /admin/auto-refresh/resume: asyncio.create_task(check_and_refresh())
\* when the switch was set
admin_resume_auto_refresh ==
    /\ kind = "refresh"
    /\ check_tasks < MaxCheckTasks
    /\ auto_refresh_paused' = FALSE
    /\ check_tasks' = IF auto_refresh_paused THEN check_tasks + 1 ELSE check_tasks
    /\ UNCHANGED <<taskVars, last_tick, last_poll>>
    /\ OnlyPoll

\* the task a resume created runs check_and_refresh
resume_check(expiring) ==
    /\ check_tasks > 0
    /\ check_tasks' = check_tasks - 1
    /\ check_and_refresh(expiring)
    /\ last_poll' = [by |-> "resume", paused |-> auto_refresh_paused,
                     available |-> last_poll.available, expiring |-> expiring,
                     enqueued |-> enqueues(expiring)]
    /\ UNCHANGED <<last_tick, auto_refresh_paused>>
    /\ OnlyPoll

PollAvailableCounts == {MIN_AVAILABLE_ACCOUNTS - 1, MIN_AVAILABLE_ACCOUNTS}

PollingStep ==
    \/ \E available_count \in PollAvailableCounts, expiring \in SUBSET AccountIds :
           polling_tick(available_count, expiring)
    \/ admin_pause_auto_refresh
    \/ admin_resume_auto_refresh
    \/ \E expiring \in SUBSET AccountIds : resume_check(expiring)
    \/ run_worker
    \/ body_start
    \/ exec_done
    \/ sleep_done
    \/ run_one_task_end

\* LoginService.__init__ sets the switch
InitTick ==
    /\ last_tick = NoTick
    /\ auto_refresh_paused = TRUE
    /\ check_tasks = 0
    /\ last_poll = NoPoll

\* the register service and the polling loop that replenishes the pool
ReplenishStep ==
    \/ \E n \in RegisterCounts : start_register(n)
    \/ \E available_count \in AvailableCounts :
           check_and_recycle_expired_accounts(available_count)
    \/ run_worker
    \/ body_start
    \/ exec_done
    \/ cancel_delivered
    \/ run_one_task_end
    \/ \E id \in 1..MaxTasks : cancel_task(id)

\* a service that has run tasks before: the ids of the tasks it still holds
\* (below the ids handed out from here on)
HistoryIds == (0 - MaxCompletedTasks)..(0 - 1)

\* a task of one account that ran to its end without a failure
CompletedTask(k, clk) ==
    [BaseTask(1, IF k = "refresh" THEN {CHOOSE a \in AccountIds : TRUE} ELSE {})
        EXCEPT !.status = SUCCESS, !.progress = 1, !.success_count = 1,
               !.results = 1, !.finished_at = clk,
               !.logs = <<IF k = "refresh" THEN "create refresh task"
                          ELSE "register task queued",
                          "task started", "body started", "progress",
                          "task success", "saved configs", "task finished">>]

\* the service after MaxCompletedTasks tasks, each run to its end before the
\* next was started
InitHistory ==
    /\ kind \in {"register", "refresh"}
    /\ tasks = [i \in HistoryIds |-> CompletedTask(kind, i + MaxCompletedTasks + 1)]
    /\ nextTaskId = 1
    /\ pending_task_ids = <<>>
    /\ current_task_id = NoTask
    /\ worker_task = "done"
    /\ current_asyncio_task = NoBody
    /\ clock = MaxCompletedTasks + 1
    /\ workers_started = MaxCompletedTasks

TaskStep ==
    \/ \E n \in RegisterCounts : start_register(n)
    \/ \E ids \in SUBSET AccountIds : start_login(ids)
    \/ run_worker
    \/ body_start
    \/ exec_done
    \/ sleep_done
    \/ cancel_delivered
    \/ run_one_task_end
    \/ \E id \in 1..MaxTasks : cancel_task(id)

(***************************************************************************)
(* ======================  BROWSER SWEEPS  ==============================  *)
(* The login service and the register service of one process, each with   *)
(* at most one task, and the two sweeps that kill browser processes:      *)
(* _cleanup_orphan_browsers (core/subprocess_worker.py), which runs in    *)
(* the executor thread when a child has exited, and the patrol of         *)
(* _force_memory_release (core/base_task_service.py), which runs on the   *)
(* event loop two seconds after a task has ended.                         *)
(***************************************************************************)
Services == {"login", "register"}

\* _any_task_running: some task of some instance has status RUNNING
any_task_running(instances) == \E s \in Services : instances[s] = RUNNING

RunningServices == {s \in Services : all_instances[s] = RUNNING}
LiveBrowsers == {s \in Services : browsers[s]}

NoSweep == [by |-> "none", sweep |-> "none", killed |-> {}, running |-> {}]

\* a sweep kills the browser processes it finds; a process whose kill fails
\* (psutil.AccessDenied is passed over) lives on
Sweep(s, sweep) ==
    \E killed \in SUBSET LiveBrowsers :
        /\ browsers' = [t \in Services |-> browsers[t] /\ t \notin killed]
        /\ last_sweep' = IF killed = {} THEN last_sweep
                         ELSE [by |-> s, sweep |-> sweep, killed |-> killed,
                               running |-> RunningServices]

\* start_login / start_register: a task is queued
start_task(s) ==
    /\ all_instances[s] \notin {PENDING, RUNNING}
    /\ all_instances' = [all_instances EXCEPT ![s] = PENDING]
    /\ UNCHANGED <<child, browsers, memory_release, last_sweep>>
    /\ UNCHANGED <<taskVars, jwtVars, bindVars, chatVars, authVars, logVars, tickVars,
                   capVars, subVars, persistVars>>

\* _run_worker takes the task: status RUNNING
worker_picks(s) ==
    /\ all_instances[s] = PENDING
    /\ all_instances' = [all_instances EXCEPT ![s] = RUNNING]
    /\ UNCHANGED <<child, browsers, memory_release, last_sweep>>
    /\ UNCHANGED <<taskVars, jwtVars, bindVars, chatVars, authVars, logVars, tickVars,
                   capVars, subVars, persistVars>>

\* run_browser_in_subprocess: the child is started and starts its browser
child_started(s) ==
    /\ all_instances[s] = RUNNING
    /\ ~child[s]
    /\ child' = [child EXCEPT ![s] = TRUE]
    /\ browsers' = [browsers EXCEPT ![s] = TRUE]
    /\ UNCHANGED <<all_instances, memory_release, last_sweep>>
    /\ UNCHANGED <<taskVars, jwtVars, bindVars, chatVars, authVars, logVars, tickVars,
                   capVars, subVars, persistVars>>

\* the browser of a child ends by itself
browser_exited(s) ==
    /\ browsers[s]
    /\ browsers' = [browsers EXCEPT ![s] = FALSE]
    /\ UNCHANGED <<all_instances, child, memory_release, last_sweep>>
    /\ UNCHANGED <<taskVars, jwtVars, bindVars, chatVars, authVars, logVars, tickVars,
                   capVars, subVars, persistVars>>

\* the finally clause of run_browser_in_subprocess: _cleanup_orphan_browsers
\* kills the tracked pids, then every browser among the descendants of the
\* main process, then every marked browser of the system
cleanup_orphan_browsers(s) ==
    /\ child[s]
    /\ child' = [child EXCEPT ![s] = FALSE]
    /\ Sweep(s, "cleanup")
    /\ UNCHANGED <<all_instances, memory_release>>
    /\ UNCHANGED <<taskVars, jwtVars, bindVars, chatVars, authVars, logVars, tickVars,
                   capVars, subVars, persistVars>>

\* the finally clause of _run_one_task, after the body has ended
run_one_task_finally(s) ==
    /\ all_instances[s] = RUNNING
    /\ ~child[s]
    /\ all_instances' = [all_instances EXCEPT ![s] = SUCCESS]
    /\ memory_release' = [memory_release EXCEPT ![s] = TRUE]
    /\ UNCHANGED <<child, browsers, last_sweep>>
    /\ UNCHANGED <<taskVars, jwtVars, bindVars, chatVars, authVars, logVars, tickVars,
                   capVars, subVars, persistVars>>

\* _force_memory_release after its sleep: _patrol_kill_zombie_browsers does
\* nothing while a task is running, else it kills every browser process
force_memory_release(s) ==
    /\ memory_release[s]
    /\ memory_release' = [memory_release EXCEPT ![s] = FALSE]
    /\ IF any_task_running(all_instances)
       THEN UNCHANGED <<browsers, last_sweep>>
       ELSE Sweep(s, "patrol")
    /\ UNCHANGED <<all_instances, child>>
    /\ UNCHANGED <<taskVars, jwtVars, bindVars, chatVars, authVars, logVars, tickVars,
                   capVars, subVars, persistVars>>

InitPatrol ==
    /\ all_instances = [s \in Services |-> "none"]
    /\ child = [s \in Services |-> FALSE]
    /\ browsers = [s \in Services |-> FALSE]
    /\ memory_release = [s \in Services |-> FALSE]
    /\ last_sweep = NoSweep

PatrolStep ==
    \/ \E s \in Services : start_task(s)
    \/ \E s \in Services : worker_picks(s)
    \/ \E s \in Services : child_started(s)
    \/ \E s \in Services : browser_exited(s)
    \/ \E s \in Services : cleanup_orphan_browsers(s)
    \/ \E s \in Services : run_one_task_finally(s)
    \/ \E s \in Services : force_memory_release(s)

(***************************************************************************)
(* ======================  BROWSER SUBPROCESS  ==========================  *)
(* One call of run_browser_in_subprocess (core/subprocess_worker.py) in    *)
(* its executor thread, the child it starts and the processes the child    *)
(* starts.  A kill that is sent is taken to end its target.                *)
(***************************************************************************)
NoRun == [pc |-> "idle", os_name |-> "posix", child |-> "none",
          descendants |-> "none", timed_out |-> FALSE, cancelled |-> FALSE,
          stdout |-> "none", cleanup_reason |-> "unknown", path |-> "none",
          sweeps |-> 0, result |-> "none"]

\* what the child wrote to stdout when it ended
Stdouts == {"result_success", "result_failure", "bad_json", "no_result"}

\* the variant of _kill_proc that kills the child process only
kill_proc_ChildOnly(r) ==
    [r EXCEPT !.child = IF @ = "running" THEN "killed" ELSE @]

\* _kill_proc: SIGKILL to the process group of the child (posix), then kill
\* of the process tree below the child and of the child
kill_proc(r) ==
    [r EXCEPT !.child = IF @ = "running" THEN "killed" ELSE @,
              !.descendants = IF @ = "running" /\ (r.child = "running" \/ r.os_name = "posix")
                              THEN "killed" ELSE @]

\* the finally clause: _cleanup_orphan_browsers runs once and kills the
\* processes it recognises as browsers of the automation
finally(r, recognised) ==
    [r EXCEPT !.sweeps = @ + 1,
              !.descendants = IF @ = "running" /\ recognised THEN "killed" ELSE @]

\* the lines of stdout searched for RESULT:
parse_result(stdout) == IF stdout = "result_success" THEN "success" ELSE "failure"

OnlyRun == UNCHANGED <<taskVars, jwtVars, bindVars, chatVars, authVars, logVars,
                       patrolVars, tickVars, capVars, persistVars, process, killed_by>>

\* a return statement inside the try block, then the finally clause
Return(r, path, reason, result, recognised) ==
    run' = [finally([r EXCEPT !.cleanup_reason = reason, !.path = path], recognised)
                EXCEPT !.pc = "returned", !.result = result]

\* subprocess.Popen: the child is started, or the call returns at once
Popen(ok) ==
    /\ run.pc = "idle"
    /\ run' = IF ok THEN [run EXCEPT !.pc = "stdin", !.child = "running"]
              ELSE [run EXCEPT !.pc = "returned", !.result = "failure"]
    /\ OnlyRun

\* the parameters are written to the child's stdin
stdin_write(ok, recognised) ==
    /\ run.pc = "stdin"
    /\ IF ok THEN run' = [run EXCEPT !.pc = "thread"]
       ELSE Return(kill_proc(run), "stdin_write_failed", "stdin_write_failed",
                   "failure", recognised)
    /\ OnlyRun

\* log_thread.start(), outside the inner try: what it raises leaves the
\* function through the finally clause
log_thread_start(ok, recognised) ==
    /\ run.pc = "thread"
    /\ run' = IF ok THEN [run EXCEPT !.pc = "loop"]
              ELSE [finally([run EXCEPT !.path = "thread_start_failed"], recognised)
                       EXCEPT !.pc = "raised", !.result = "raised"]
    /\ OnlyRun

\* the child starts a browser
browser_launched ==
    /\ run.pc \in {"stdin", "thread", "loop"}
    /\ run.child = "running"
    /\ run.descendants = "none"
    /\ run' = [run EXCEPT !.descendants = "running"]
    /\ OnlyRun

\* the child ends by itself; what it started may live on
child_exits(stdout) ==
    /\ run.pc \in {"stdin", "thread", "loop"}
    /\ run.child = "running"
    /\ run' = [run EXCEPT !.child = "exited", !.stdout = stdout]
    /\ OnlyRun

\* more than timeout seconds have passed since the loop began
timeout_elapsed ==
    /\ run.pc = "loop"
    /\ ~run.timed_out
    /\ run' = [run EXCEPT !.timed_out = TRUE]
    /\ OnlyRun

\* cancel_check answers True from now on
cancel_set ==
    /\ run.pc \in {"stdin", "thread", "loop"}
    /\ ~run.cancelled
    /\ run' = [run EXCEPT !.cancelled = TRUE]
    /\ OnlyRun

\* one turn of the waiting loop that does not end in time.sleep: exc is an
\* exception of the loop's own calls, raises is log_callback raising
supervise(exc, raises, recognised) ==
    /\ run.pc = "loop"
    /\ IF exc
       THEN Return(kill_proc(run), "manage_exception", "manage_exception", "failure",
                   recognised)
       ELSE IF run.timed_out
       THEN IF raises
            THEN Return(kill_proc(run), "timeout", "manage_exception", "failure",
                        recognised)
            ELSE Return(kill_proc(run), "timeout", "timeout", "failure", recognised)
       ELSE IF run.cancelled
       THEN IF raises
            THEN Return(kill_proc(run), "cancel", "manage_exception", "failure",
                        recognised)
            ELSE Return(kill_proc(run), "cancel", "cancel", "failure", recognised)
       ELSE /\ run.child = "exited"
            /\ ~raises
            /\ Return(run, "normal_exit", "normal_exit", parse_result(run.stdout),
                      recognised)
    /\ OnlyRun

\* ---- the sweeps' choice of the processes they kill -----------------------
\* core/browser_process_utils.py is not part of the sources at hand:
\* is_browser_related_process and has_automation_marker follow the written
\* specification and the test of the cleanup matchers.
Cmdlines ==
    {<<"chrome", "--type=renderer">>,
     <<"chrome", "--type=renderer", "--gemini-business-automation">>,
     <<"chrome", "--type=gpu-process">>,
     <<"chromium", "--user-data-dir=/tmp/gemini_chrome_abc">>,
     <<"chromium", "--user-data-dir=/tmp/uc-profile-xyz">>,
     <<"python", "worker.py">>,
     <<"python", "-u", "browser_task_runner.py">>,
     <<"bash">>,
     <<"conhost.exe">>}

\* psutil's name of the process
process_name(cmdline) == cmdline[1]

\* a process of the system; a tracked pid was sampled below the child, whose
\* environment carries GEMINI_AUTOMATION_MARKER
Processes ==
    {p \in [cmdline : Cmdlines, env_marker : BOOLEAN, tracked : BOOLEAN,
            descendant : BOOLEAN] :
        p.tracked => (p.env_marker /\ p.descendant)}

is_browser_related_process(name, cmdline) == name \in {"chrome", "chromium"}

has_automation_marker(cmdline) ==
    \E k \in 1..Len(cmdline) :
        cmdline[k] \in {"--gemini-business-automation",
                        "--user-data-dir=/tmp/gemini_chrome_abc",
                        "--user-data-dir=/tmp/uc-profile-xyz"}

\* _cleanup_orphan_browsers, stage 1: the sampled pids
tracked_kills(p) ==
    p.tracked /\ is_browser_related_process(process_name(p.cmdline), p.cmdline)

\* _cleanup_orphan_browsers, stage 2: the descendants of the main process
fallback_kills(p) ==
    p.descendant /\ is_browser_related_process(process_name(p.cmdline), p.cmdline)

\* _cleanup_orphan_browsers, stage 3: every process of the system
global_kills(p) ==
    /\ is_browser_related_process(process_name(p.cmdline), p.cmdline)
    /\ has_automation_marker(p.cmdline)

\* the name test of the patrol: any(kw in name for kw in ('chrom', ...))
looks_like_browser(name) == name \in {"chrome", "chromium"}

\* _patrol_kill_zombie_browsers, for a process other than the main process
patrol_kills(p) ==
    LET name == process_name(p.cmdline)
        matched == IF name = "conhost.exe" THEN TRUE
                   ELSE is_browser_related_process(name, p.cmdline)
    IN  /\ looks_like_browser(name) \/ p.env_marker
        /\ matched \/ p.env_marker

stage_kills(stage, p) ==
    CASE stage = "tracked" -> tracked_kills(p)
      [] stage = "fallback" -> fallback_kills(p)
      [] stage = "global" -> global_kills(p)
      [] stage = "patrol" -> patrol_kills(p)

\* a sweep stage comes to the process, which lives
sweep_stage(stage) ==
    /\ killed_by = {}
    /\ killed_by' = IF stage_kills(stage, process) THEN killed_by \cup {stage}
                    ELSE killed_by
    /\ UNCHANGED <<run, process>>
    /\ UNCHANGED <<taskVars, jwtVars, bindVars, chatVars, authVars, logVars,
                   patrolVars, tickVars, capVars, persistVars>>

\* the process is replaced by another one
process_changes(p) ==
    /\ process' = p
    /\ killed_by' = {}
    /\ UNCHANGED run
    /\ UNCHANGED <<taskVars, jwtVars, bindVars, chatVars, authVars, logVars,
                   patrolVars, tickVars, capVars, persistVars>>

CleanupStep ==
    \/ sweep_stage("tracked")
    \/ sweep_stage("fallback")
    \/ sweep_stage("global")
    \/ sweep_stage("patrol")
    \/ \E p \in Processes : process_changes(p)

NoProcess == [cmdline |-> <<"python", "worker.py">>, env_marker |-> FALSE,
              tracked |-> FALSE, descendant |-> FALSE]

InitSub == run = NoRun /\ process = NoProcess /\ killed_by = {}

InitRun == run \in {[NoRun EXCEPT !.os_name = o] : o \in {"posix", "nt"}}

SubprocessStep ==
    \/ \E ok \in BOOLEAN : Popen(ok)
    \/ \E ok, recognised \in BOOLEAN : stdin_write(ok, recognised)
    \/ \E ok, recognised \in BOOLEAN : log_thread_start(ok, recognised)
    \/ browser_launched
    \/ \E stdout \in Stdouts : child_exits(stdout)
    \/ timeout_elapsed
    \/ cancel_set
    \/ \E exc, raises, recognised \in BOOLEAN : supervise(exc, raises, recognised)

(***************************************************************************)
(* ======================  JWT MANAGER  =================================  *)
(* One JWTManager, i.e. one account.  get() calls arrive as processes      *)
(* 1..MaxGetCalls; the background refresh spawned by call c is process     *)
(* c + MaxGetCalls.                                                        *)
(***************************************************************************)

NoJwt == 0
NoHolder == 0
\* get() has not returned; get() raised what _refresh raised
NoReturn == -1
RefreshError == -2

\* expires = time.time() + 270
JwtLifetime == 270
\* the early-refresh window of get() and _safe_background_refresh
EarlyRefresh == 30

\* the step by which the wall clock advances in the model: from a refresh at t
\* it reaches t+125 (valid), t+250 (inside the early-refresh window) and
\* t+375 (expired)
JwtTicks == {125}

GetCalls == 1..MaxGetCalls
BackgroundOf(c) == c + MaxGetCalls
Background == {BackgroundOf(c) : c \in GetCalls}
JwtProcs == GetCalls \cup Background

\* asyncio.Lock.locked(), without any lock every acquire succeeds at once
locked_Never == FALSE

\* asyncio.Lock.locked()
locked == jwt_lock # NoHolder

\* the end of "async with self._lock": the lock goes to the first waiter
ReleasedLock(w) == IF w = <<>> THEN NoHolder ELSE Head(w)
ReleasedWaiters(w) == IF w = <<>> THEN w ELSE Tail(w)
ReleasedPc(pcf, w) == IF w = <<>> THEN pcf ELSE [pcf EXCEPT ![Head(w)] = "granted"]

\* the test of get() without the comparison with the expiry
NeedsBlockingRefresh_NoExpiry(t) == jwt = NoJwt

NeedsBlockingRefresh(t) == jwt = NoJwt \/ t >= expires

\* get(), lines 75-79: the code under the lock, up to the await in _refresh
get_locked(c, t) ==
    IF NeedsBlockingRefresh(t)
    THEN /\ jwt_pc' = [jwt_pc EXCEPT ![c] = "in_refresh"]
         /\ jwt_lock' = c
         /\ UNCHANGED <<jwt_waiters, jwt_ret>>
    ELSE /\ jwt_ret' = [jwt_ret EXCEPT ![c] = jwt]
         /\ jwt_lock' = ReleasedLock(jwt_waiters)
         /\ jwt_waiters' = ReleasedWaiters(jwt_waiters)
         /\ jwt_pc' = ReleasedPc([jwt_pc EXCEPT ![c] = "done"], jwt_waiters)

\* get(): from the call to its first suspension point or its return
get(c) ==
    /\ c \in GetCalls
    /\ jwt_pc[c] = "idle"
    /\ current_time' = [current_time EXCEPT ![c] = now]
    /\ IF NeedsBlockingRefresh(now)
       THEN IF locked
            THEN /\ jwt_waiters' = Append(jwt_waiters, c)
                 /\ jwt_pc' = [jwt_pc EXCEPT ![c] = "wait_lock"]
                 /\ UNCHANGED <<jwt_lock, jwt_ret>>
            ELSE get_locked(c, now)
       ELSE /\ jwt_ret' = [jwt_ret EXCEPT ![c] = jwt]
            /\ jwt_pc' = IF now > expires - EarlyRefresh /\ ~refreshing
                         THEN [jwt_pc EXCEPT ![c] = "done",
                                             ![BackgroundOf(c)] = "created"]
                         ELSE [jwt_pc EXCEPT ![c] = "done"]
            /\ UNCHANGED <<jwt_lock, jwt_waiters>>
    /\ UNCHANGED <<jwt, expires, refreshing, now>>
    /\ OnlyJwt

\* get() resumes with the lock it waited for
get_resume(c) ==
    /\ c \in GetCalls
    /\ jwt_pc[c] = "granted"
    /\ get_locked(c, current_time[c])
    /\ UNCHANGED <<jwt, expires, refreshing, current_time, now>>
    /\ OnlyJwt

\* _safe_background_refresh, lines 95-101: the code under the lock
safe_background_refresh_locked(b) ==
    IF refreshing \/ now <= expires - EarlyRefresh
    THEN /\ jwt_lock' = ReleasedLock(jwt_waiters)
         /\ jwt_waiters' = ReleasedWaiters(jwt_waiters)
         /\ jwt_pc' = ReleasedPc([jwt_pc EXCEPT ![b] = "done"], jwt_waiters)
         /\ UNCHANGED refreshing
    ELSE /\ refreshing' = TRUE
         /\ jwt_lock' = b
         /\ jwt_pc' = [jwt_pc EXCEPT ![b] = "in_refresh"]
         /\ UNCHANGED jwt_waiters

\* the spawned task starts running _safe_background_refresh
safe_background_refresh(b) ==
    /\ b \in Background
    /\ jwt_pc[b] = "created"
    /\ IF refreshing
       THEN /\ jwt_pc' = [jwt_pc EXCEPT ![b] = "done"]
            /\ UNCHANGED <<refreshing, jwt_lock, jwt_waiters>>
       ELSE IF locked
            THEN /\ jwt_waiters' = Append(jwt_waiters, b)
                 /\ jwt_pc' = [jwt_pc EXCEPT ![b] = "wait_lock"]
                 /\ UNCHANGED <<refreshing, jwt_lock>>
            ELSE safe_background_refresh_locked(b)
    /\ UNCHANGED <<jwt, expires, current_time, jwt_ret, now>>
    /\ OnlyJwt

\* _safe_background_refresh resumes with the lock it waited for
safe_background_refresh_resume(b) ==
    /\ b \in Background
    /\ jwt_pc[b] = "granted"
    /\ safe_background_refresh_locked(b)
    /\ UNCHANGED <<jwt, expires, current_time, jwt_ret, now>>
    /\ OnlyJwt

\* the answers of the getoxsrf call: 200 with a key, a failure (non-200 or an
\* exception), or the cancellation of the awaiting task
RefreshOutcomes == {"ok", "failed", "cancelled"}

\* _safe_background_refresh whose finally clause runs only after a refresh
\* that succeeded
finally_refreshing_OnSuccess(p, outcome) ==
    IF p \in Background /\ outcome = "ok" THEN FALSE ELSE refreshing

\* _safe_background_refresh, "finally: self._refreshing = False"; get() does
\* not touch the flag
finally_refreshing(p, outcome) ==
    IF p \in Background THEN FALSE ELSE refreshing

\* _refresh ends: the token is stored on success; the caller's "async with"
\* (and the finally clause of the background task) then runs
refresh(p, outcome) ==
    /\ p \in JwtProcs
    /\ jwt_pc[p] = "in_refresh"
    /\ IF outcome = "ok"
       THEN /\ jwt' = jwt + 1
            /\ expires' = now + JwtLifetime
       ELSE UNCHANGED <<jwt, expires>>
    /\ refreshing' = finally_refreshing(p, outcome)
    /\ jwt_ret' = IF p \in GetCalls
                  THEN [jwt_ret EXCEPT ![p] = IF outcome = "ok" THEN jwt + 1
                                                ELSE RefreshError]
                  ELSE jwt_ret
    /\ jwt_lock' = ReleasedLock(jwt_waiters)
    /\ jwt_waiters' = ReleasedWaiters(jwt_waiters)
    /\ jwt_pc' = ReleasedPc([jwt_pc EXCEPT ![p] = "done"], jwt_waiters)
    /\ UNCHANGED <<current_time, now>>
    /\ OnlyJwt

\* the wall clock advances
jwt_tick(d) ==
    /\ now + d <= MaxJwtTime
    /\ now' = now + d
    /\ UNCHANGED <<jwt, expires, refreshing, jwt_lock, jwt_waiters, jwt_pc,
                   current_time, jwt_ret>>
    /\ OnlyJwt

InitJwt ==
    /\ jwt = NoJwt
    /\ expires = 0
    /\ refreshing = FALSE
    /\ jwt_lock = NoHolder
    /\ jwt_waiters = <<>>
    /\ jwt_pc = [p \in JwtProcs |-> "idle"]
    /\ current_time = [c \in GetCalls |-> 0]
    /\ jwt_ret = [c \in GetCalls |-> NoReturn]
    /\ now = 1

JwtStep ==
    \/ \E c \in GetCalls : get(c)
    \/ \E c \in GetCalls : get_resume(c)
    \/ \E b \in Background : safe_background_refresh(b)
    \/ \E b \in Background : safe_background_refresh_resume(b)
    \/ \E p \in JwtProcs, outcome \in RefreshOutcomes : refresh(p, outcome)
    \/ \E d \in JwtTicks : jwt_tick(d)

(***************************************************************************)
(* ======================  SESSION BINDINGS  ============================  *)
(* SessionBindingManager.  Every method body runs under self._lock and     *)
(* holds no await inside it, so each call is one action.                   *)
(***************************************************************************)

ChatIds == {"c1", "c2", "c3"}

\* the chat_id whose calls the history variable follows; the manager treats
\* all chat_ids alike
ObservedChat == "c1"

BindAccounts == {"a1", "a2"}
\* upstream session names are numbered; NoSession stands for None
Sessions == {1, 2}
NoSession == 0

\* self._binding_ttl = 86400 * 7
binding_ttl == 86400 * 7

\* self._max_bindings is 10000 in the program; the model keeps a table of
\* SmallMaxBindings entries, and one of ScaledMaxBindings where a tenth of
\* the table is more than one entry
SmallMaxBindings == 2
ScaledMaxBindings == 20

InitCap == max_bindings = SmallMaxBindings

\* the steps by which the wall clock advances in the model
BindTicks == {1, binding_ttl}

\* the number of clock steps taken so far
BindTicksTaken == ((bind_now - 1) % binding_ttl) + ((bind_now - 1) \div binding_ttl)

\* the position of chat_id in the table, 0 when it has no binding
IndexOf(b, chat_id) ==
    IF \E i \in 1..Len(b) : b[i].chat_id = chat_id
    THEN CHOOSE i \in 1..Len(b) : b[i].chat_id = chat_id
    ELSE 0

\* del self._bindings[chat_id]
Delete(b, i) == SubSeq(b, 1, i - 1) \o SubSeq(b, i + 1, Len(b))

\* the expiry test of get_binding with the boundary included
IsExpired_Inclusive(binding, t) == t - binding.created_at >= binding_ttl

\* the expiry test of get_binding
IsExpired(binding, t) == t - binding.created_at > binding_ttl

\* the last entry of sorted(items, key=created_at)
OldestIndex_Newest(b) ==
    CHOOSE i \in 1..Len(b) : \A j \in 1..Len(b) :
        \/ b[i].created_at > b[j].created_at
        \/ b[i].created_at = b[j].created_at /\ i >= j

\* the first entry of sorted(items, key=created_at): the earliest created_at,
\* and among equal ones the entry inserted first (sorted is stable)
OldestIndex(b) ==
    CHOOSE i \in 1..Len(b) : \A j \in 1..Len(b) :
        \/ b[i].created_at < b[j].created_at
        \/ b[i].created_at = b[j].created_at /\ i <= j

RECURSIVE RemoveOldestBindings(_, _)
RemoveOldestBindings(b, k) ==
    IF k = 0 \/ b = <<>> THEN b
    ELSE RemoveOldestBindings(Delete(b, OldestIndex(b)), k - 1)

\* _cleanup_oldest: drop max(1, len // 10) entries, oldest created_at first
cleanup_oldest(b) ==
    IF b = <<>> THEN b
    ELSE LET n == Len(b) \div 10
         IN  RemoveOldestBindings(b, IF n > 1 THEN n ELSE 1)

BoundChats(b) == {b[i].chat_id : i \in 1..Len(b)}

\* what get_binding(chat_id) returns at time t: <<>> for None, else <<binding>>
get_binding_result(b, chat_id, t) ==
    LET i == IndexOf(b, chat_id)
    IN  IF i = 0 THEN <<>>
        ELSE IF IsExpired(b[i], t) THEN <<>>
        ELSE <<b[i]>>

\* get_binding: an expired entry is deleted on the way
get_binding(chat_id) ==
    LET i == IndexOf(bindings, chat_id)
    IN  /\ IF i # 0 /\ get_binding_result(bindings, chat_id, bind_now) = <<>>
           THEN /\ bindings' = Delete(bindings, i)
                /\ dirty' = TRUE
           ELSE UNCHANGED <<bindings, dirty>>
        /\ UNCHANGED <<bind_now, history>>
        /\ OnlyBind

\* a mutation other than set_binding, as history keeps it
Mutation(op) ==
    [op |-> op, account_id |-> "None", session_id |-> NoSession, created_at |-> 0]

\* set_binding that stamps every write with the time of the call
set_binding_written_NewTime(b, chat_id, account_id, session_id, t) ==
    LET i == IndexOf(b, chat_id)
        final_session_id ==
            IF session_id = NoSession /\ i # 0 /\ b[i].account_id = account_id
            THEN b[i].session_id
            ELSE session_id
        entry == [chat_id |-> chat_id, account_id |-> account_id,
                  session_id |-> final_session_id, created_at |-> t]
    IN  IF i = 0 THEN Append(b, entry) ELSE [b EXCEPT ![i] = entry]

\* the table set_binding leaves behind, before the size check
set_binding_written(b, chat_id, account_id, session_id, t) ==
    LET i == IndexOf(b, chat_id)
        created_at == IF i = 0 THEN t ELSE b[i].created_at
        final_session_id ==
            IF session_id = NoSession /\ i # 0 /\ b[i].account_id = account_id
            THEN b[i].session_id
            ELSE session_id
        entry == [chat_id |-> chat_id, account_id |-> account_id,
                  session_id |-> final_session_id, created_at |-> created_at]
    IN  IF i = 0 THEN Append(b, entry) ELSE [b EXCEPT ![i] = entry]

\* the table after set_binding
set_binding_result(b, chat_id, account_id, session_id, t) ==
    LET written == set_binding_written(b, chat_id, account_id, session_id, t)
    IN  IF Len(written) > max_bindings THEN cleanup_oldest(written) ELSE written

set_binding(chat_id, account_id, session_id) ==
    LET written == set_binding_written(bindings, chat_id, account_id, session_id, bind_now)
        kept == set_binding_result(bindings, chat_id, account_id, session_id, bind_now)
        i == IndexOf(kept, chat_id)
    IN  /\ bindings' = kept
        /\ dirty' = TRUE
        /\ history' =
               IF ObservedChat \in BoundChats(written) \ BoundChats(kept)
               THEN Mutation("evicted")
               ELSE IF chat_id = ObservedChat
               THEN [op |-> "set_binding", account_id |-> account_id,
                     session_id |-> session_id, created_at |-> kept[i].created_at]
               ELSE history
        /\ UNCHANGED bind_now
        /\ OnlyBind

\* the table after remove_binding
remove_binding_result(b, chat_id) ==
    IF IndexOf(b, chat_id) # 0 THEN Delete(b, IndexOf(b, chat_id)) ELSE b

remove_binding(chat_id) ==
    LET i == IndexOf(bindings, chat_id)
    IN  /\ bindings' = remove_binding_result(bindings, chat_id)
        /\ dirty' = (dirty \/ i # 0)
        /\ history' = IF chat_id = ObservedChat THEN Mutation("remove_binding")
                       ELSE history
        /\ UNCHANGED bind_now
        /\ OnlyBind

\* a reset that drops the entry instead of clearing its session
reset_session_binding_result_Drop(b, chat_id) ==
    IF IndexOf(b, chat_id) # 0 THEN Delete(b, IndexOf(b, chat_id)) ELSE b

\* the table after reset_session_binding
reset_session_binding_result(b, chat_id) ==
    IF IndexOf(b, chat_id) # 0
    THEN [b EXCEPT ![IndexOf(b, chat_id)].session_id = NoSession]
    ELSE b

reset_session_binding(chat_id) ==
    LET i == IndexOf(bindings, chat_id)
    IN  /\ IF i # 0
           THEN /\ bindings' = reset_session_binding_result(bindings, chat_id)
                /\ dirty' = TRUE
                /\ history' = IF chat_id = ObservedChat
                               THEN Mutation("reset_session_binding")
                               ELSE history
           ELSE UNCHANGED <<bindings, dirty, history>>
        /\ UNCHANGED bind_now
        /\ OnlyBind

\* the wall clock advances
bind_tick(d) ==
    /\ BindTicksTaken < MaxBindTicks
    /\ bind_now' = bind_now + d
    /\ UNCHANGED <<bindings, dirty, history>>
    /\ OnlyBind

InitBind ==
    /\ bindings = <<>>
    /\ dirty = FALSE
    /\ bind_now = 1
    /\ history = Mutation("none")

BindStep ==
    \/ \E c \in ChatIds : get_binding(c)
    \/ \E c \in ChatIds, a \in BindAccounts, s \in Sessions \cup {NoSession} :
           set_binding(c, a, s)
    \/ \E c \in ChatIds : remove_binding(c)
    \/ \E c \in ChatIds : reset_session_binding(c)
    \/ \E d \in BindTicks : bind_tick(d)

\* ---- the persist task ----------------------------------------------------
\* start_persist_task runs persist_to_db every persist_interval seconds with
\* the database enabled.  persist_to_db copies the table under the lock and
\* clears the flag, then awaits storage.db_set.
OnlyPersist == UNCHANGED <<taskVars, jwtVars, chatVars, authVars, logVars,
                           patrolVars, tickVars, capVars, subVars>>

\* the except clause of persist_to_db
write_failed_dirty(d) == TRUE

\* dict(self._bindings) copies the table, not its entries: an entry that
\* reset_session_binding has changed in place since is serialised as changed
Serialised(snap, b) ==
    [k \in 1..Len(snap) |->
        IF \E i \in 1..Len(b) : /\ b[i].chat_id = snap[k].chat_id
                                 /\ b[i].account_id = snap[k].account_id
                                 /\ b[i].created_at = snap[k].created_at
                                 /\ b[i].session_id = NoSession
        THEN [snap[k] EXCEPT !.session_id = NoSession]
        ELSE snap[k]]

\* persist_to_db up to "await storage.db_set": nothing to do without the flag
persist_begin ==
    /\ persist_pc = "sleeping"
    /\ dirty
    /\ snapshot' = bindings
    /\ dirty' = FALSE
    /\ persist_pc' = "writing"
    /\ UNCHANGED <<bindings, bind_now, history, store>>
    /\ OnlyPersist

\* storage.db_set returns or raises
persist_end(ok) ==
    /\ persist_pc = "writing"
    /\ IF ok
       THEN /\ store' \in {snapshot} \cup
                           (IF dirty THEN {Serialised(snapshot, bindings)} ELSE {})
            /\ UNCHANGED dirty
       ELSE /\ dirty' = write_failed_dirty(dirty)
            /\ UNCHANGED store
    /\ persist_pc' = "sleeping"
    /\ UNCHANGED <<bindings, bind_now, history, snapshot>>
    /\ OnlyPersist

\* the persist task is cancelled in its sleep: the except clause of
\* start_persist_task calls persist_to_db once more
cancel_while_sleeping ==
    /\ persist_pc = "sleeping"
    /\ IF dirty
       THEN /\ snapshot' = bindings
            /\ dirty' = FALSE
            /\ persist_pc' = "last_write"
       ELSE /\ persist_pc' = "stopped"
            /\ UNCHANGED <<snapshot, dirty>>
    /\ UNCHANGED <<bindings, bind_now, history, store>>
    /\ OnlyPersist

\* the persist task is cancelled inside "await storage.db_set": the
\* CancelledError is no Exception, so it leaves persist_to_db past its except
\* clause, with the statement executed or not; the except clause of
\* start_persist_task calls persist_to_db once more
cancel_while_writing(written) ==
    /\ persist_pc = "writing"
    /\ store' = IF written THEN snapshot ELSE store
    /\ IF dirty
       THEN /\ snapshot' = bindings
            /\ dirty' = FALSE
            /\ persist_pc' = "last_write"
       ELSE /\ persist_pc' = "stopped"
            /\ UNCHANGED <<snapshot, dirty>>
    /\ UNCHANGED <<bindings, bind_now, history>>
    /\ OnlyPersist

\* the write of the last persist_to_db returns or raises, and the task ends
last_write_end(ok) ==
    /\ persist_pc = "last_write"
    /\ IF ok
       THEN /\ store' \in {snapshot} \cup
                           (IF dirty THEN {Serialised(snapshot, bindings)} ELSE {})
            /\ UNCHANGED dirty
       ELSE /\ dirty' = write_failed_dirty(dirty)
            /\ UNCHANGED store
    /\ persist_pc' = "stopped"
    /\ UNCHANGED <<bindings, bind_now, history, snapshot>>
    /\ OnlyPersist

InitPersist ==
    /\ store = <<>>
    /\ snapshot = <<>>
    /\ persist_pc = "sleeping"

PersistChats == {"c1", "c2"}

PersistStep ==
    \/ \E c \in PersistChats, a \in BindAccounts, s \in {NoSession, 1} :
           set_binding(c, a, s)
    \/ \E c \in PersistChats : remove_binding(c)
    \/ \E c \in PersistChats : reset_session_binding(c)
    \/ persist_begin
    \/ \E ok \in BOOLEAN : persist_end(ok)
    \/ cancel_while_sleeping
    \/ \E written \in BOOLEAN : cancel_while_writing(written)
    \/ \E ok \in BOOLEAN : last_write_end(ok)

(***************************************************************************)
(* ======================  REQUEST ORCHESTRATOR  ========================  *)
(* chat_impl and its response_wrapper (main.py) for the requests of one    *)
(* conversation of a MEMORY-mode key.  The account objects, the account    *)
(* pool, the per-conversation lock, the session cache and the message      *)
(* helpers live in core/account.py, core/google_api.py and core/message.py,*)
(* which are not part of the sources at hand: they follow the written      *)
(* specification.                                                          *)
(***************************************************************************)

Reqs == 1..MaxRequests

\* admissible values of retry.max_request_retries up to the bound
RetryLimits == 1..MaxRetries

NoAccount == "none"

\* the accounts a deployment may configure, in the order of the accounts dict
AccountOrder == <<"a1", "a2">>
Accts == {AccountOrder[i] : i \in 1..Len(AccountOrder)}

\* multi_account_mgr.accounts is empty until accounts are configured
Pools == {{}, Accts}

\* the keys of multi_account_mgr.accounts in dict order
PoolOrder(accts) == SelectSeq(AccountOrder, LAMBDA a : a \in DOMAIN accts)

\* admissible values of retry.account_failure_threshold (1..10) up to the bound
FailureThresholds == 1..MaxThreshold
\* retry.max_new_session_tries
MAX_NEW_SESSION_TRIES == 5
\* retry.max_account_switch_tries
MAX_ACCOUNT_SWITCH_TRIES == 5

\* ---- messages -----------------------------------------------------------
Message(role, content) == [role |-> role, content |-> content]

\* the message lists a client sends: a first turn, and a later turn that
\* carries the system prompt and the earlier turns
Conversations ==
    { <<Message("user", 1)>>,
      <<Message("system", 1), Message("user", 2),
        Message("assistant", 3), Message("user", 4)>> }

SystemMessages(messages) == SelectSeq(messages, LAMBDA m : m.role = "system")

strip_to_last_user_message(messages, is_first_message) ==
    IF is_first_message
    THEN SystemMessages(messages) \o <<messages[Len(messages)]>>
    ELSE <<messages[Len(messages)]>>

\* a text is the sequence of its lines; a line is <<role label, content>>
build_full_context_text(messages) ==
    [i \in 1..Len(messages) |-> <<messages[i].role, messages[i].content>>]

\* the content of the messages without role labels
extract_text(messages) ==
    [i \in 1..Len(messages) |-> <<"", messages[i].content>>]

\* text_to_send of chat_impl
text_to_send(req_messages, is_new_conversation) ==
    IF is_new_conversation /\ Len(req_messages) > 1
    THEN build_full_context_text(req_messages)
    ELSE extract_text(SystemMessages(req_messages))
         \o extract_text(<<req_messages[Len(req_messages)]>>)

\* ---- exceptions ---------------------------------------------------------
\* detail is the text of the exception, in parts: a fixed prefix and what the
\* upstream sent
RESOURCE_EXHAUSTED == "RESOURCE_EXHAUSTED"
\* the body of an upstream answer with that status line
error_text(status_code) ==
    IF status_code = 429 THEN RESOURCE_EXHAUSTED ELSE "Unauthorized"
HTTPException(status_code) ==
    [type |-> "HTTPException", status_code |-> status_code,
     detail |-> <<"Upstream Error", error_text(status_code)>>]
ConnectError == [type |-> "httpx.ConnectError", status_code |-> 0, detail |-> <<>>]
ReadTimeout == [type |-> "httpx.ReadTimeout", status_code |-> 0, detail |-> <<>>]
AttributeError == [type |-> "AttributeError", status_code |-> 0, detail |-> <<>>]
\* raise ValueError("Empty response from model")
ValueError == [type |-> "ValueError", status_code |-> 0, detail |-> <<>>]

\* the error elements the upstream sends inside a 200 stream
ErrorInfos ==
    {[code |-> 429, status |-> RESOURCE_EXHAUSTED,
      message |-> "Resource has been exhausted (e.g. check quota)."]}
QuotaPrefix == "Upstream quota exhausted:"
\* if error_code == 429 or "RESOURCE_EXHAUSTED" in error_status: raise
\* HTTPException(429, "Upstream quota exhausted: " + error_message); the
\* status of the element is not part of the detail
in_band_error(error_info) ==
    [type |-> "HTTPException", status_code |-> 429,
     detail |-> <<QuotaPrefix, error_info.message>>]
InBand(e) == e.detail # <<>> /\ e.detail[1] = QuotaPrefix

\* what create_google_session raises
CreateErrors == {HTTPException(401), ConnectError}
\* what an attempt (stream_chat_generator) raises
StreamErrors == {HTTPException(429), HTTPException(401), ConnectError,
                 ReadTimeout, AttributeError}

\* except (httpx.HTTPError, ssl.SSLError, HTTPException, ValueError)
Caught(e) ==
    e.type \in {"HTTPException", "httpx.ConnectError", "httpx.ReadTimeout", "ValueError"}

classify_error_status(status_code, e) ==
    IF status_code = 504 \/ e.type = "httpx.ReadTimeout" THEN "timeout" ELSE "error"

\* ---- frames of a streamed response --------------------------------------
\* a delta is <<field, value>>; <<>> is the empty delta of the last chunk
create_chunk(id, delta, finish_reason) ==
    [id |-> id, delta |-> delta, finish_reason |-> finish_reason]

\* frames that are no chunks carry no id
NoId == 0
DoneFrame == [id |-> NoId, delta |-> <<>>, finish_reason |-> "[DONE]"]
ErrorFrame == [id |-> NoId, delta |-> <<"error", 0>>, finish_reason |-> "none"]

\* what the upstream answers to one call: a thought and a text, in this
\* order, and one generated file
Replies == <<<<"reasoning_content", 1>>, <<"content", 2>>>>
GeneratedFiles == <<1>>

\* the chunks of the replies, in the order the upstream sent them
text_chunks(chat_id) ==
    [i \in 1..Len(Replies) |-> create_chunk(chat_id, Replies[i], "none")]

\* the chunks of the downloaded files: enumerate(zip(download_tasks, results), 1)
media_chunks(chat_id) ==
    [idx \in 1..Len(GeneratedFiles) |->
        create_chunk(chat_id, <<"media", idx>>, "none")]

\* everything stream_chat_generator yields with is_stream when it runs to its end
stream_chat_generator(chat_id) ==
    <<create_chunk(chat_id, <<"role", 0>>, "none")>>
    \o text_chunks(chat_id) \o media_chunks(chat_id)
    \o <<create_chunk(chat_id, <<>>, "stop"), DoneFrame>>

\* how many frames an attempt has yielded when it ends: all of them, or, when
\* it raises, none (get_jwt), the role chunk (the status line), or the role
\* chunk and some of the text (an error inside the stream)
Yielded(outcome) ==
    IF outcome.type = "ok"
    THEN {Len(stream_chat_generator(NoId))}
    ELSE 0..(1 + Len(Replies))

\* ---- accounts -----------------------------------------------------------
\* cooldown: the global last_cooldown_time is running; quota_cooldowns: the
\* deadline of the text class is set (both outlast a request)
Eligible(acc) == acc.is_available /\ ~acc.cooldown /\ ~acc.quota_cooldowns

\* error_count is kept up to the threshold: nothing reads a larger value
count_error(acc) ==
    LET n == IF acc.error_count < ACCOUNT_FAILURE_THRESHOLD
             THEN acc.error_count + 1 ELSE acc.error_count
    IN  [acc EXCEPT !.error_count = n,
                    !.is_available = IF n >= ACCOUNT_FAILURE_THRESHOLD THEN FALSE ELSE @]

handle_non_http_error(acc) == count_error(acc)

\* the body mentions RESOURCE_EXHAUSTED
Mentions(detail) == \E i \in 1..Len(detail) : detail[i] = RESOURCE_EXHAUSTED

\* the quota class of every modelled request is text
handle_http_error(acc, status_code, detail) ==
    IF status_code = 429
    THEN IF Mentions(detail)
         THEN [acc EXCEPT !.quota_cooldowns = TRUE]
         ELSE [acc EXCEPT !.cooldown = TRUE]
    ELSE count_error(acc)

handle_error(acc, e) ==
    IF e.type = "HTTPException"
    THEN handle_http_error(acc, e.status_code, e.detail)
    ELSE handle_non_http_error(acc)

\* get_account(account_id, ...) returns the account: it is in the pool and usable
Usable(accts, account_id) ==
    account_id \in DOMAIN accts /\ Eligible(accts[account_id])

Position(idx, k, n) == ((idx + k - 1) % n) + 1

\* get_account(None, ...): the next usable account after the rotating index
get_account_next(accts, idx) ==
    LET order == PoolOrder(accts)
        n == Len(order)
        ks == {k \in 1..n : Eligible(accts[order[Position(idx, k, n)]])}
    IN  IF ks = {}
        THEN [ok |-> FALSE, account_id |-> NoAccount, index |-> idx]
        ELSE LET k == CHOOSE k \in ks : \A j \in ks : k <= j
             IN  [ok |-> TRUE, account_id |-> order[Position(idx, k, n)],
                  index |-> Position(idx, k, n)]

\* the account-switch loop of response_wrapper
RECURSIVE switch_account(_, _, _, _)
switch_account(accts, idx, failed_accounts, tries_left) ==
    IF tries_left = 0
    THEN [ok |-> FALSE, account_id |-> NoAccount, index |-> idx]
    ELSE LET candidate == get_account_next(accts, idx)
         IN  IF ~candidate.ok \/ candidate.account_id \notin failed_accounts
             THEN candidate
             ELSE switch_account(accts, candidate.index, failed_accounts, tries_left - 1)

available_count(accts, failed_accounts) ==
    Cardinality({a \in DOMAIN accts : Eligible(accts[a]) /\ a \notin failed_accounts})

Min(a, b) == IF a < b THEN a ELSE b

\* ---- the state the handlers work on -------------------------------------
ChatId == ObservedChat

MEMORY == "memory"
FAST == "fast"

\* f"fast_{request_id}_{uuid.uuid4().hex[:6]}": a key of the request alone
FastKey(r) == "fast_" \o ToString(r)

session_cache_key(r, mode) == IF mode = FAST THEN FastKey(r) ELSE ChatId

CacheKeys == {ChatId} \cup {FastKey(r) : r \in Reqs}

NoResponse == [cause |-> "none", status_code |-> 0, error_frame |-> FALSE]

NewRequest ==
    [pc |-> "idle", mode |-> "none", session_cache_key |-> "",
     stream |-> FALSE, messages |-> <<>>, req_messages |-> <<>>,
     bound_account_id |-> NoAccount, bound_session_id |-> NoSession,
     account_manager |-> NoAccount, is_new_conversation |-> FALSE,
     attempt |-> 0, new_account |-> NoAccount,
     retry_count |-> 0, failed_accounts |-> {}, current_retry_mode |-> FALSE,
     current_text |-> <<>>, current_session |-> NoSession,
     tries |-> 0, switches |-> 0, frames |-> <<>>, response |-> NoResponse,
     error_info |-> <<>>, parse_error |-> FALSE]

World ==
    [accounts |-> accounts, account_index |-> account_index,
     cache |-> global_session_cache, bindings |-> bindings, dirty |-> dirty,
     lock |-> session_lock, waiters |-> session_waiters, sessions |-> sessions,
     requests |-> requests, last_failure |-> last_failure]

Commit(w) ==
    /\ accounts' = w.accounts
    /\ account_index' = w.account_index
    /\ global_session_cache' = w.cache
    /\ bindings' = w.bindings
    /\ dirty' = w.dirty
    /\ session_lock' = w.lock
    /\ session_waiters' = w.waiters
    /\ sessions' = w.sessions
    /\ requests' = w.requests
    /\ last_failure' = w.last_failure
    /\ UNCHANGED <<MAX_REQUEST_RETRIES, ACCOUNT_FAILURE_THRESHOLD, api_key_modes>>
    /\ OnlyChat

\* the request ends: the client gets status_code, and, on a stream, possibly
\* an error frame in the body; of the locals only what the response and the
\* retry accounting show is kept
Finish(w, r, cause, status_code, error_frame) ==
    LET q == w.requests[r]
    IN  [w EXCEPT !.requests[r] =
            [NewRequest EXCEPT
                !.pc = "done", !.stream = q.stream,
                !.retry_count = q.retry_count,
                !.tries = q.tries, !.switches = q.switches,
                !.frames = q.frames,
                !.error_info = q.error_info,
                !.parse_error = q.parse_error,
                !.response = [cause |-> cause, status_code |-> status_code,
                              error_frame |-> error_frame]]]

\* a failure inside response_wrapper: an error frame on a stream whose
\* headers (200) are out already, else an HTTPException
wrapper_fail(w, r, cause, status_code) ==
    IF w.requests[r].stream
    THEN Finish([w EXCEPT !.requests[r].frames = Append(@, ErrorFrame)],
                r, cause, 200, TRUE)
    ELSE Finish(w, r, cause, status_code, FALSE)

\* global_session_cache.get(session_cache_key)
cached(w, r) == w.cache[w.requests[r].session_cache_key]

\* leaving "async with session_lock": the first waiter becomes the owner; the
\* lock of a FAST request is its own and nobody waits for it
release(w, r) ==
    IF w.requests[r].mode = FAST
    THEN w
    ELSE IF w.waiters = <<>>
    THEN [w EXCEPT !.lock = NoHolder]
    ELSE [w EXCEPT !.lock = Head(w.waiters), !.waiters = Tail(w.waiters),
                   !.requests[Head(w.waiters)].pc = "granted"]

\* create_google_session returned: the new session's name, and its account
created(w, account_id) == [w EXCEPT !.sessions = Append(@, account_id)]

set_session_cache(w, key, account_id, session_id) ==
    [w EXCEPT !.cache[key] = <<[account_id |-> account_id, session_id |-> session_id]>>]

bind(w, account_id, session_id) ==
    [set_session_cache(w, ChatId, account_id, session_id) EXCEPT
        !.bindings = set_binding_result(w.bindings, ChatId, account_id, session_id, bind_now),
        !.dirty = TRUE]

\* the session is cached and bound whatever the mode of the key
persist_AnyMode(w, r, account_id, session_id) ==
    bind(set_session_cache(w, w.requests[r].session_cache_key, account_id, session_id),
         account_id, session_id)

\* set_session_cache, and set_binding "if key_config.mode == ApiKeyMode.MEMORY"
persist(w, r, account_id, session_id) ==
    IF w.requests[r].mode = MEMORY
    THEN bind(w, account_id, session_id)
    ELSE set_session_cache(w, w.requests[r].session_cache_key, account_id, session_id)

unbind(w, r) ==
    [w EXCEPT !.bindings = remove_binding_result(w.bindings, ChatId),
              !.dirty = (w.dirty \/ IndexOf(w.bindings, ChatId) # 0),
              !.requests[r].bound_account_id = NoAccount,
              !.requests[r].bound_session_id = NoSession]

failed_on(w, account_id, e, handled) ==
    [w EXCEPT !.accounts[account_id] = IF handled = 0 THEN @ ELSE handle_error(@, e),
              !.last_failure = [account_id |-> account_id, handled |-> handled,
                                in_band |-> InBand(e)]]

\* steps C and D of an attempt: the text, then the upstream call
start_stream(w, r) ==
    LET q == w.requests[r]
    IN  [w EXCEPT !.requests[r].pc = "generating",
                  !.requests[r].error_info = <<>>,
                  !.requests[r].parse_error = FALSE,
                  !.requests[r].current_session = cached(w, r)[1].session_id,
                  !.requests[r].current_text =
                      IF q.current_retry_mode
                      THEN build_full_context_text(q.req_messages)
                      ELSE @]

\* step A of an attempt
attempt(w, r) ==
    LET w1 == [w EXCEPT !.requests[r].tries = @ + 1]
    IN  IF cached(w, r) = <<>>
        THEN [w1 EXCEPT !.requests[r].pc = "creating_recover"]
        ELSE start_stream(w1, r)

\* the account switch at the head of a retry
retry(w, r) ==
    LET q == w.requests[r]
        n == available_count(w.accounts, q.failed_accounts)
        c == switch_account(w.accounts, w.account_index, q.failed_accounts,
                            Min(MAX_ACCOUNT_SWITCH_TRIES, n))
    IN  IF n = 0
        THEN wrapper_fail(w, r, "unavailable", 503)
        ELSE IF ~c.ok
        THEN wrapper_fail([w EXCEPT !.account_index = c.index], r, "failover", 503)
        ELSE [w EXCEPT !.account_index = c.index,
                       !.requests[r].new_account = c.account_id,
                       !.requests[r].switches = @ + 1,
                       !.requests[r].pc = "creating_switch"]

\* the same test, one failure late
Exhausted_Late(retry_count) == retry_count > MAX_REQUEST_RETRIES + 1

\* if retry_count > max_retries
Exhausted(retry_count) == retry_count > MAX_REQUEST_RETRIES

final_status_code(e) ==
    IF e.status_code # 0 THEN e.status_code
    ELSE IF classify_error_status(e.status_code, e) = "timeout" THEN 504 ELSE 500

\* the except clause of an attempt
failure(w, r, e) ==
    LET q == w.requests[r]
        n == q.retry_count + 1
        w1 == [failed_on(w, q.account_manager, e, 1) EXCEPT
                  !.requests[r].failed_accounts = @ \cup {q.account_manager},
                  !.requests[r].retry_count = n]
    IN  IF Exhausted(n)
        THEN wrapper_fail(w1, r, "exhausted", final_status_code(e))
        ELSE IF n <= MAX_REQUEST_RETRIES
        THEN retry(w1, r)
        ELSE Finish(w1, r, "ended", 200, FALSE)

\* an exception the except clause does not name leaves response_wrapper
escape(w, r, e) ==
    LET w1 == failed_on(w, w.requests[r].account_manager, e, 0)
    IN  IF w.requests[r].stream
        THEN Finish(w1, r, "unhandled", 200, FALSE)
        ELSE Finish(w1, r, "unhandled", 500, FALSE)

\* the success path of an attempt
success(w, r) ==
    LET a == w.requests[r].account_manager
    IN  Finish([w EXCEPT !.accounts[a].is_available = TRUE,
                         !.accounts[a].error_count = 0],
               r, "success", 200, FALSE)

\* chat_impl after the lock: the messages are cut down, the text is prepared
\* and the response starts
proceed(w, r, is_new_conversation) ==
    LET q == w.requests[r]
        req_messages == strip_to_last_user_message(q.messages, is_new_conversation)
        w1 == [w EXCEPT !.requests[r].is_new_conversation = is_new_conversation,
                        !.requests[r].req_messages = req_messages,
                        !.requests[r].current_text =
                            text_to_send(req_messages, is_new_conversation),
                        !.requests[r].current_retry_mode = is_new_conversation]
    IN  IF q.stream
        THEN [w1 EXCEPT !.requests[r].pc = "respond"]
        ELSE attempt(w1, r)

\* min(MAX_NEW_SESSION_TRIES, len(multi_account_mgr.accounts))
max_account_tries == Min(MAX_NEW_SESSION_TRIES, Cardinality(DOMAIN accounts))

\* "for attempt in range(0)" runs no round and raises nothing: the lock is
\* left, and the first statement after it reads is_new_conversation, which no
\* branch has assigned; the UnboundLocalError leaves chat_impl
unassigned(w, r) == Finish(release(w, r), r, "unassigned", 500, FALSE)

\* one round of the new-conversation loop, up to create_google_session
new_conversation(w, r, k) ==
    LET c == get_account_next(w.accounts, w.account_index)
    IN  IF max_account_tries = 0
        THEN unassigned(w, r)
        ELSE IF ~c.ok
        THEN Finish(release(w, r), r, "pool", 503, FALSE)
        ELSE [w EXCEPT !.account_index = c.index,
                       !.requests[r].account_manager = c.account_id,
                       !.requests[r].attempt = k,
                       !.requests[r].pc = "creating_new"]

\* the body of "async with session_lock" up to its first upstream call
locked_section(w, r) ==
    LET q == w.requests[r]
        b == q.bound_account_id
    IN  IF cached(w, r) # <<>>
        THEN IF Usable(w.accounts, cached(w, r)[1].account_id)
             THEN proceed(release([w EXCEPT !.requests[r].account_manager =
                                                cached(w, r)[1].account_id], r), r, FALSE)
             ELSE Finish(release(w, r), r, "account", 503, FALSE)
        ELSE IF b # NoAccount
        THEN IF Usable(w.accounts, b)
             THEN IF q.bound_session_id # NoSession
                  THEN proceed(release(persist([w EXCEPT !.requests[r].account_manager = b],
                                               r, b, q.bound_session_id), r), r, FALSE)
                  ELSE [w EXCEPT !.requests[r].account_manager = b,
                                 !.requests[r].pc = "creating_bound"]
             ELSE new_conversation(
                      unbind(IF b \in DOMAIN w.accounts
                             THEN [w EXCEPT !.accounts[b] = count_error(@)]
                             ELSE w, r), r, 0)
        ELSE new_conversation(w, r, 0)

\* ---- the handlers -------------------------------------------------------
Ok == [type |-> "ok", status_code |-> 0, detail |-> <<>>]

\* error elements with another code and status
OtherErrorInfos ==
    {[code |-> 500, status |-> "INTERNAL", message |-> "Internal error encountered."]}

\* an error element is logged; it ends the stream with an exception only
\* "if error_code == 429 or "RESOURCE_EXHAUSTED" in error_status"
error_element(error_info) ==
    IF error_info.code = 429 \/ error_info.status = RESOURCE_EXHAUSTED
    THEN in_band_error(error_info)
    ELSE Ok

\* requests are numbered in the order they arrive
Arrives(r) ==
    /\ requests[r].pc = "idle"
    /\ \A p \in Reqs : p < r => requests[p].pc # "idle"

\* a chat request: the binding is read, then the conversation's lock is taken
chat_impl(r, mode, stream, messages) ==
    /\ Arrives(r)
    /\ mode \in api_key_modes
    /\ LET i == IndexOf(bindings, ChatId)
           got == get_binding_result(bindings, ChatId, bind_now)
           w0 == [World EXCEPT
                   !.requests[r].mode = mode,
                   !.requests[r].session_cache_key = session_cache_key(r, mode),
                   !.requests[r].stream = stream,
                   !.requests[r].messages = messages]
           w == [w0 EXCEPT
                   !.bindings = IF i # 0 /\ got = <<>> THEN Delete(@, i) ELSE @,
                   !.dirty = (@ \/ (i # 0 /\ got = <<>>)),
                   !.requests[r].bound_account_id =
                       IF got = <<>> THEN NoAccount ELSE got[1].account_id,
                   !.requests[r].bound_session_id =
                       IF got = <<>> THEN NoSession ELSE got[1].session_id]
       IN  IF mode = FAST
           THEN Commit(locked_section(w0, r))
           ELSE IF session_lock = NoHolder
           THEN Commit(locked_section([w EXCEPT !.lock = r], r))
           ELSE Commit([w EXCEPT !.waiters = Append(@, r),
                                 !.requests[r].pc = "wait_lock"])

\* the lock was handed to a waiting request
session_lock_granted(r) ==
    /\ requests[r].pc = "granted"
    /\ Commit(locked_section(World, r))

\* the management commands of a MEMORY-mode key
Commands == {"reset", "switch"}

command(r, cmd) ==
    /\ Arrives(r)
    /\ LET i == IndexOf(bindings, ChatId)
           w == IF cmd = "reset"
                THEN [World EXCEPT
                        !.bindings = reset_session_binding_result(@, ChatId),
                        !.dirty = (@ \/ i # 0)]
                ELSE [World EXCEPT
                        !.bindings = remove_binding_result(@, ChatId),
                        !.dirty = (@ \/ i # 0)]
       IN  Commit(Finish([w EXCEPT !.cache[ChatId] = <<>>], r, cmd, 200, FALSE))

\* create_google_session for the bound account returned or raised
create_bound_done(r, outcome) ==
    /\ requests[r].pc = "creating_bound"
    /\ LET a == requests[r].account_manager
           w == created(World, a)
       IN  IF outcome = Ok
           THEN Commit(proceed(release(persist(w, r, a, Len(w.sessions)), r), r, TRUE))
           ELSE Commit(new_conversation(
                           unbind(failed_on(World, a, outcome, 1), r), r, 0))

\* create_google_session in the new-conversation loop returned or raised
create_new_done(r, outcome) ==
    /\ requests[r].pc = "creating_new"
    /\ LET q == requests[r]
           a == q.account_manager
           w == created(World, a)
           f == failed_on(World, a, outcome, 1)
       IN  IF outcome = Ok
           THEN Commit(proceed(release(persist(w, r, a, Len(w.sessions)), r), r, TRUE))
           ELSE IF q.attempt = max_account_tries - 1
           THEN Commit(Finish(release(f, r), r, "pool", 503, FALSE))
           ELSE Commit(new_conversation(f, r, q.attempt + 1))

\* create_google_session for the account a retry switched to returned or raised
create_switch_done(r, outcome) ==
    /\ requests[r].pc = "creating_switch"
    /\ LET a == requests[r].new_account
           w == created(World, a)
           w1 == [set_session_cache(w, requests[r].session_cache_key, a,
                                    Len(w.sessions)) EXCEPT
                     !.requests[r].account_manager = a,
                     !.requests[r].current_retry_mode = TRUE]
       IN  IF outcome = Ok
           THEN Commit(attempt(w1, r))
           ELSE Commit(wrapper_fail(failed_on(World, a, outcome, 1), r, "failover",
                           IF outcome.status_code # 0 THEN outcome.status_code ELSE 503))

\* create_google_session of step A (the cache entry was gone) returned or raised
create_recover_done(r, outcome) ==
    /\ requests[r].pc = "creating_recover"
    /\ LET a == requests[r].account_manager
           w == created(World, a)
           w1 == [set_session_cache(w, requests[r].session_cache_key, a,
                                    Len(w.sessions)) EXCEPT
                     !.requests[r].current_retry_mode = TRUE]
       IN  IF outcome = Ok
           THEN Commit(start_stream(w1, r))
           ELSE IF Caught(outcome)
           THEN Commit(failure(World, r, outcome))
           ELSE Commit(escape(World, r, outcome))

\* the streaming response starts to iterate response_wrapper
response_wrapper(r) ==
    /\ requests[r].pc = "respond"
    /\ Commit(attempt(World, r))

\* the world after the attempt of r ended with outcome, n frames yielded
stream_ended(w0, r, outcome, n) ==
    LET w == IF w0.requests[r].stream
             THEN [w0 EXCEPT !.requests[r].frames =
                      @ \o SubSeq(stream_chat_generator(r), 1, n)]
             ELSE w0
    IN  IF outcome = Ok
        THEN success(w, r)
        ELSE IF Caught(outcome)
        THEN failure(w, r, outcome)
        ELSE escape(w, r, outcome)

\* stream_chat_generator ran to its end or raised, after n frames; the
\* frames of a streamed response have gone to the client by then
stream_done(r, outcome, n) ==
    /\ requests[r].pc = "generating"
    /\ Commit(stream_ended(World, r, outcome, n))

\* what stream_chat_generator yields with is_stream when the parser raises
\* ValueError after n replies: "except ValueError" logs it, the generated files
\* are not looked for, and the generator goes on to its end
frames_after_parse_error(chat_id, n) ==
    <<create_chunk(chat_id, <<"role", 0>>, "none")>>
    \o SubSeq(text_chunks(chat_id), 1, n)

\* full_content is not empty: a reply that is no thought was read
has_content(n) == \E i \in 1..n : Replies[i][1] = "content"

\* the stream of the attempt failed to parse after n replies: with content
\* the generator ends normally, without it raises ValueError("Empty response
\* from model"); the request keeps, as history, that its latest stream failed
\* to parse
stream_parse_error(r, n) ==
    /\ requests[r].pc = "generating"
    /\ LET w0 == [World EXCEPT !.requests[r].parse_error = TRUE]
           yielded == frames_after_parse_error(r, n)
           w == IF requests[r].stream
                THEN [w0 EXCEPT !.requests[r].frames =
                         @ \o yielded
                           \o IF has_content(n)
                              THEN <<create_chunk(r, <<>>, "stop"), DoneFrame>>
                              ELSE <<>>]
                ELSE w0
       IN  IF has_content(n)
           THEN Commit(success(w, r))
           ELSE Commit(failure(w, r, ValueError))

\* the stream of the attempt held the element {"error": error_info}; the
\* request keeps, as history, the element its latest stream held
stream_error_element(r, error_info, n) ==
    /\ requests[r].pc = "generating"
    /\ Commit(stream_ended([World EXCEPT !.requests[r].error_info = <<error_info>>],
                           r, error_element(error_info), n))

\* bindings found in storage when the process starts
LoadedBindings ==
    { <<>> } \cup
    { <<[chat_id |-> ChatId, account_id |-> AccountOrder[1],
         session_id |-> s, created_at |-> bind_now]>> : s \in {NoSession, 1} }

InitChat ==
    /\ MAX_REQUEST_RETRIES \in RetryLimits
    /\ \E pool \in Pools :
           accounts = [a \in pool |-> [is_available |-> TRUE, error_count |-> 0,
                                       cooldown |-> FALSE,
                                       quota_cooldowns |-> FALSE]]
    /\ account_index = 0
    /\ ACCOUNT_FAILURE_THRESHOLD \in FailureThresholds
    /\ api_key_modes \in {{MEMORY}, {MEMORY, FAST}}
    /\ global_session_cache = [k \in CacheKeys |-> <<>>]
    /\ session_lock = NoHolder
    /\ session_waiters = <<>>
    /\ sessions = IF bindings # <<>> /\ bindings[1].session_id # NoSession
                  THEN <<bindings[1].account_id>> ELSE <<>>
    /\ requests = [r \in Reqs |-> NewRequest]
    /\ last_failure = [account_id |-> NoAccount, handled |-> 0, in_band |-> FALSE]

\* admin_update_settings: a changed retry policy is copied to every account;
\* the accounts' is_available and error_count stay as they are
admin_update_settings(account_failure_threshold) ==
    /\ account_failure_threshold # ACCOUNT_FAILURE_THRESHOLD
    /\ ACCOUNT_FAILURE_THRESHOLD' = account_failure_threshold
    /\ UNCHANGED <<MAX_REQUEST_RETRIES, api_key_modes, accounts, account_index,
                   global_session_cache, session_lock, session_waiters, sessions,
                   requests, last_failure, bindings, dirty>>
    /\ OnlyChat

SettingsStep ==
    \E account_failure_threshold \in FailureThresholds :
        admin_update_settings(account_failure_threshold)

\* the upstream answers a stream with an error element
QuotaStep ==
    \E r \in Reqs, error_info \in ErrorInfos :
        \E n \in Yielded(in_band_error(error_info)) :
            stream_done(r, in_band_error(error_info), n)

\* the upstream answers a stream with an error element of any kind
ErrorElementStep ==
    \E r \in Reqs, error_info \in ErrorInfos \cup OtherErrorInfos :
        \E n \in Yielded(error_element(error_info)) :
            stream_error_element(r, error_info, n)

\* the upstream answers with a stream that does not parse to its end
ParseErrorStep ==
    \E r \in Reqs, n \in 0..Len(Replies) : stream_parse_error(r, n)

ChatStep ==
    \/ \E r \in Reqs, mode \in {MEMORY, FAST}, stream \in BOOLEAN,
          messages \in Conversations :
           chat_impl(r, mode, stream, messages)
    \/ \E r \in Reqs : session_lock_granted(r)
    \/ \E r \in Reqs, cmd \in Commands : command(r, cmd)
    \/ \E r \in Reqs, outcome \in {Ok} \cup CreateErrors : create_bound_done(r, outcome)
    \/ \E r \in Reqs, outcome \in {Ok} \cup CreateErrors : create_new_done(r, outcome)
    \/ \E r \in Reqs, outcome \in {Ok} \cup CreateErrors : create_switch_done(r, outcome)
    \/ \E r \in Reqs, outcome \in {Ok} \cup CreateErrors : create_recover_done(r, outcome)
    \/ \E r \in Reqs : response_wrapper(r)
    \/ \E r \in Reqs, outcome \in {Ok} \cup StreamErrors :
           \E n \in Yielded(outcome) : stream_done(r, outcome, n)

(***************************************************************************)
(* ======================  API KEYS AND CHAT IDS  =======================  *)
(* verify_api_key (core/auth.py) and extract_chat_id                       *)
(* (core/session_binding.py), as the chat route applies them to one        *)
(* request.  A header value is the sequence of its words; a digest is the  *)
(* tuple of what was hashed.                                               *)
(***************************************************************************)

\* content[:500] of the fingerprint
FINGERPRINT_CHARS == 500

\* values of time.time() at the call
Times == {"t1", "t2"}

ApiKeyConfig(key, mode, remark) == [key |-> key, mode |-> mode, remark |-> remark]

\* basic.api_keys
KeyLists ==
    { <<>>,
      <<ApiKeyConfig("k2", FAST, "")>>,
      <<ApiKeyConfig("k1", FAST, ""), ApiKeyConfig("k2", MEMORY, "")>>,
      <<ApiKeyConfig("k2", MEMORY, ""), ApiKeyConfig("k2", FAST, "")>> }

\* basic.api_key is "" when no legacy key is configured
BasicConfigs == [api_key : {"", "k1"}, api_keys : KeyLists]

\* values of the Authorization header; <<>> is no header
Authorizations ==
    { <<>>, <<"Bearer", "k1">>, <<"Bearer", "k2">>, <<"Bearer", "k3">>,
      <<"k1">>, <<"k2">>, <<"bearer", "k1">>, <<"Bearer">>,
      <<"Bearer", "k1", "k2">> }

\* Python values of the request: text is a sequence of characters
Str(text) == [type |-> "str", value |-> text]
Number(n) == [type |-> "int", value |-> <<n>>]
Dict(d) == [type |-> "dict", value |-> d]
List(items) == [type |-> "list", value |-> items]
EmptyDict == [k \in {} |-> Str(<<>>)]

\* d.dict_get(key, default)
dict_get(d, key, default) == IF key \in DOMAIN d THEN d[key] ELSE default

ChatMessage(role, content) == [role |-> role, content |-> content]
TextPart(text) == [type |-> "text", text |-> text]
ImagePart == [type |-> "image_url", text |-> <<>>]
LongText == [i \in 1..(FINGERPRINT_CHARS + 1) |-> IF i > FINGERPRINT_CHARS THEN "z" ELSE "a"]

\* the conversation headers of the request, lower-cased by the route
HeaderDicts ==
    { EmptyDict,
      "x-conversation-id" :> <<"h", "1">>,
      "x-chat-id" :> <<" ", "h", "1", " ">>,
      ("x-conversation-id" :> <<" ">>) @@ ("chat-id" :> <<"h", "2">>),
      ("conversation-id" :> <<"h", "2">>) @@ ("x-chat-id" :> <<"h", "1">>) }

\* the JSON body of the request apart from its messages
BodyDicts ==
    { EmptyDict,
      "conversation_id" :> Str(<<"b", "1">>),
      "conversation_id" :> Number(7),
      ("chat_id" :> Str(<<" ", "b", "1">>)) @@ ("thread_id" :> Str(<<"b", "2">>)),
      ("conversation_id" :> Str(<<" ">>))
          @@ ("metadata" :> Dict("session_id" :> Str(<<"d", "1">>))),
      "metadata" :> Dict(("thread_id" :> Str(<<"d", "2">>))
                             @@ ("chat_id" :> Str(<<"d", "1", " ">>))),
      "metadata" :> Str(<<"d", "1">>) }

MessageLists ==
    { <<>>,
      <<ChatMessage("user", Str(<<"m", "1">>))>>,
      <<ChatMessage("user", Str(<<"m", "2">>))>>,
      <<ChatMessage("system", Str(<<"s">>)), ChatMessage("user", Str(<<" ", "m", "1", " ">>)),
        ChatMessage("user", Str(<<"m", "2">>))>>,
      <<ChatMessage("user", List(<<TextPart(<<"m">>), ImagePart, TextPart(<<"1">>)>>))>>,
      <<ChatMessage("user", Str(LongText))>>,
      <<ChatMessage("system", Str(<<"s">>)), ChatMessage("assistant", Str(<<"m", "1">>))>> }

HttpRequests ==
    [authorization : Authorizations,
     headers : {EmptyDict, "x-conversation-id" :> <<"h", "1">>},
     body : {EmptyDict, "conversation_id" :> Str(<<"b", "1">>)},
     messages : {<<ChatMessage("user", Str(<<"m", "1">>))>>,
                 <<ChatMessage("user", Str(<<"m", "2">>))>>},
     client_ip : {"ip1", "ip2"}]

\* requests that differ in where a conversation id could come from
ChatIdRequests ==
    [authorization : {<<>>, <<"Bearer", "k1">>, <<"k1">>},
     headers : HeaderDicts,
     body : BodyDicts,
     messages : MessageLists,
     client_ip : {"ip1", "ip2"}]

\* step 1 of verify_api_key: what follows "Bearer ", else the whole value
token_of(authorization) ==
    IF Len(authorization) >= 2 /\ authorization[1] = "Bearer"
    THEN Tail(authorization)
    ELSE authorization

NotVerified == [status_code |-> 0, config |-> <<>>]
Accepted(cfg) == [status_code |-> 200, config |-> <<cfg>>]
Rejected == [status_code |-> 401, config |-> <<>>]

\* verify_api_key without the match on the legacy key
verify_api_key_NoLegacy(authorization, cfg) ==
    LET token == token_of(authorization)
        matches == {i \in 1..Len(cfg.api_keys) : <<cfg.api_keys[i].key>> = token}
    IN  IF cfg.api_key = "" /\ cfg.api_keys = <<>>
        THEN Accepted(ApiKeyConfig("default", MEMORY, "Open Access"))
        ELSE IF token = <<>>
        THEN Rejected
        ELSE IF matches # {}
        THEN Accepted(cfg.api_keys[CHOOSE i \in matches : \A j \in matches : i <= j])
        ELSE Rejected

verify_api_key(authorization, cfg) ==
    LET token == token_of(authorization)
        has_legacy == cfg.api_key # ""
        has_new == cfg.api_keys # <<>>
        matches == {i \in 1..Len(cfg.api_keys) : <<cfg.api_keys[i].key>> = token}
    IN  IF ~has_legacy /\ ~has_new
        THEN Accepted(ApiKeyConfig("default", MEMORY, "Open Access"))
        ELSE IF token = <<>>
        THEN Rejected
        ELSE IF has_legacy /\ token = <<cfg.api_key>>
        THEN Accepted(ApiKeyConfig(cfg.api_key, MEMORY, "Legacy Key"))
        ELSE IF has_new /\ matches # {}
        THEN Accepted(cfg.api_keys[CHOOSE i \in matches : \A j \in matches : i <= j])
        ELSE Rejected

\* _extract_bearer_token: exactly "Bearer <token>", else None (<<>>)
extract_bearer_token(authorization) ==
    IF Len(authorization) = 2 /\ authorization[1] = "Bearer"
    THEN <<authorization[2]>>
    ELSE <<>>

\* hashlib.md5(...).hexdigest() of the parts joined
md5(parts) == <<"md5">> \o parts

\* str.strip()
RECURSIVE lstrip(_)
lstrip(text) ==
    IF text # <<>> /\ Head(text) = " " THEN lstrip(Tail(text)) ELSE text

RECURSIVE rstrip(_)
rstrip(text) ==
    IF text # <<>> /\ text[Len(text)] = " "
    THEN rstrip(SubSeq(text, 1, Len(text) - 1))
    ELSE text

strip(text) == rstrip(lstrip(text))

\* text[:n]
prefix(text, n) == SubSeq(text, 1, IF Len(text) < n THEN Len(text) ELSE n)

header_keys == <<"x-conversation-id", "x-chat-id", "conversation-id", "chat-id">>
body_keys == <<"conversation_id", "chat_id", "session_id", "thread_id">>

\* the first key of keys whose value in d is a string that is not blank: 0 if none
first_id(d, keys) ==
    LET found == {i \in 1..Len(keys) :
                     /\ dict_get(d, keys[i], Str(<<>>)).type = "str"
                     /\ strip(dict_get(d, keys[i], Str(<<>>)).value) # <<>>}
    IN  IF found = {} THEN 0 ELSE CHOOSE i \in found : \A j \in found : i <= j

\* "".join of the text of the parts whose type is "text"
RECURSIVE join_text_parts(_)
join_text_parts(parts) ==
    IF parts = <<>> THEN <<>>
    ELSE (IF Head(parts).type = "text" THEN Head(parts).text ELSE <<>>)
             \o join_text_parts(Tail(parts))

\* generate_chat_id_from_messages: the digest of the IP and the time when
\* there is no message, else of the IP, the role and the content of the
\* first user message (of the first message when no message is the user's)
generate_chat_id_from_messages(messages, client_ip, time) ==
    IF messages = <<>>
    THEN md5(<<client_ip, ":", time>>)
    ELSE LET users == {i \in 1..Len(messages) : messages[i].role = "user"}
             target_msg == IF users = {} THEN messages[1]
                           ELSE messages[CHOOSE i \in users : \A j \in users : i <= j]
             content == IF target_msg.content.type = "list"
                        THEN join_text_parts(target_msg.content.value)
                        ELSE target_msg.content.value
         IN  md5(<<client_ip, "|", target_msg.role, "|",
                   prefix(strip(content), FINGERPRINT_CHARS)>>)

\* extract_chat_id: the key's digest, else a conversation id of the headers,
\* else one of the body, else one of its metadata, else the fingerprint
extract_chat_id(messages, client_ip, authorization, headers, body, time) ==
    LET api_key == extract_bearer_token(authorization)
        h == first_id([k \in DOMAIN headers |-> Str(headers[k])], header_keys)
        b == first_id(body, body_keys)
        metadata == dict_get(body, "metadata", Dict(EmptyDict))
        m == IF metadata.type = "dict" THEN first_id(metadata.value, body_keys) ELSE 0
    IN  IF api_key # <<>>
        THEN md5(<<"apikey:", api_key[1]>>)
        ELSE IF h # 0
        THEN <<strip(headers[header_keys[h]])>>
        ELSE IF b # 0
        THEN <<strip(body[body_keys[b]].value)>>
        ELSE IF m # 0
        THEN <<strip(metadata.value[body_keys[m]].value)>>
        ELSE generate_chat_id_from_messages(messages, client_ip, time)

\* ChatRequest: the declared fields of the body; dict(req) holds no other
ChatRequest(body, messages) == "messages" :> List(messages)

\* the chat route: verify_api_key, and the HTTPException it raises
chat ==
    /\ key_config = NotVerified
    /\ key_config' = verify_api_key(http_request.authorization, basic_config)
    /\ UNCHANGED <<basic_config, http_request, chat_id_for_binding>>
    /\ OnlyAuth

\* chat_impl up to extract_chat_id, which is given dict(req) as the body
chat_id_extracted ==
    /\ key_config.status_code = 200
    /\ chat_id_for_binding = <<>>
    /\ \E time \in Times :
           LET req == ChatRequest(http_request.body, http_request.messages)
           IN  chat_id_for_binding' =
                   <<extract_chat_id(req["messages"].value, http_request.client_ip,
                                     http_request.authorization, http_request.headers,
                                     req, time)>>
    /\ UNCHANGED <<basic_config, http_request, key_config>>
    /\ OnlyAuth

InitAuth ==
    /\ basic_config \in BasicConfigs
    /\ http_request \in HttpRequests
    /\ key_config = NotVerified
    /\ chat_id_for_binding = <<>>

AuthStep ==
    \/ chat
    \/ chat_id_extracted

(***************************************************************************)
(* Specifications                                                          *)
(***************************************************************************)
vars == <<taskVars, jwtVars, bindVars, chatVars, authVars, logVars, extVars>>

\* a sub-model that takes no step rests in one of its initial states
AuthAtRest ==
    /\ basic_config = [api_key |-> "", api_keys |-> <<>>]
    /\ http_request = [authorization |-> <<>>, headers |-> EmptyDict,
                       body |-> EmptyDict,
                       messages |-> <<ChatMessage("user", Str(<<"m", "1">>))>>,
                       client_ip |-> "ip1"]

\* the sub-models that were added later rest in their initial state
InitExt == InitPatrol /\ InitTick /\ InitCap /\ InitSub /\ InitPersist

Init == InitTask /\ InitJwt /\ InitBind /\ InitChat /\ InitAuth /\ InitLog /\ InitExt /\ AuthAtRest

\* the process starts with the bindings found in storage
InitLoaded ==
    /\ bind_now = 1
    /\ bindings \in LoadedBindings
    /\ dirty = FALSE
    /\ history = Mutation("none")

TaskAtRest == kind = "register"
MemoryKeysOnly == api_key_modes = {MEMORY}
DefaultThreshold == ACCOUNT_FAILURE_THRESHOLD = MaxThreshold
ChatAtRest ==
    /\ MAX_REQUEST_RETRIES = 1
    /\ DOMAIN accounts = Accts
    /\ MemoryKeysOnly
    /\ DefaultThreshold

InitSpecTask == Init /\ ChatAtRest
\* a task service with a full history
InitSpecHistory ==
    InitHistory /\ InitJwt /\ InitBind /\ InitChat /\ ChatAtRest /\ InitAuth /\ InitLog /\ InitExt /\ AuthAtRest
InitSpecJwt == Init /\ TaskAtRest /\ ChatAtRest
InitSpecBind == Init /\ TaskAtRest /\ ChatAtRest
InitSpec ==
    /\ InitTask /\ TaskAtRest /\ InitJwt /\ InitLoaded /\ InitChat /\ MemoryKeysOnly
    /\ DefaultThreshold
    /\ InitAuth /\ InitLog /\ InitExt /\ AuthAtRest
\* a fresh deployment whose retry policy an administrator changes
InitSpecSettings ==
    /\ InitTask /\ TaskAtRest /\ InitJwt /\ InitLoaded /\ InitChat /\ MemoryKeysOnly
    /\ DefaultThreshold
    /\ MAX_REQUEST_RETRIES = 1
    /\ DOMAIN accounts = Accts
    /\ bindings # <<>> /\ bindings[1].session_id = NoSession
    /\ InitAuth /\ InitLog /\ InitExt /\ AuthAtRest
InitSpecAuth ==
    InitTask /\ TaskAtRest /\ InitJwt /\ InitBind /\ InitChat /\ ChatAtRest /\ InitAuth /\ InitLog /\ InitExt
\* both kinds of key, a bound conversation without a session, and accounts
\* that are disabled by their first counted error
InitSpecFast ==
    /\ InitTask /\ TaskAtRest /\ InitJwt /\ InitLoaded /\ InitChat
    /\ InitAuth /\ InitLog /\ InitExt /\ AuthAtRest
    /\ ACCOUNT_FAILURE_THRESHOLD = 1
    /\ api_key_modes = {MEMORY, FAST}
    /\ MAX_REQUEST_RETRIES = 1
    /\ DOMAIN accounts = Accts
    /\ bindings # <<>> /\ bindings[1].session_id = NoSession

\* two accounts, and an upstream that also answers with error elements
InitSpecQuota ==
    /\ InitTask /\ TaskAtRest /\ InitJwt /\ InitLoaded /\ InitChat /\ MemoryKeysOnly
    /\ DefaultThreshold
    /\ MAX_REQUEST_RETRIES = 1
    /\ DOMAIN accounts = Accts
    /\ bindings # <<>>
    /\ InitAuth /\ InitLog /\ InitExt /\ AuthAtRest

\* a bound conversation without a session and an upstream that may put an
\* error element into any stream
InitSpecElement ==
    /\ InitSpecQuota
    /\ bindings[1].session_id = NoSession

\* a task whose child writes to its stderr
InitSpecAppend ==
    InitAppending /\ InitJwt /\ InitBind /\ InitChat /\ ChatAtRest /\ InitAuth /\ AuthAtRest
    /\ InitLog /\ InitExt

\* one call of run_browser_in_subprocess on either platform
InitSpecSubprocess ==
    /\ InitTask /\ TaskAtRest /\ InitJwt /\ InitBind /\ InitChat /\ ChatAtRest
    /\ InitAuth /\ AuthAtRest /\ InitLog /\ InitPatrol /\ InitTick /\ InitCap /\ InitRun
    /\ process = NoProcess /\ killed_by = {}
    /\ InitPersist

\* the sweeps at work on the processes of the system, no task running
InitSpecCleanup == Init /\ TaskAtRest /\ ChatAtRest

InitSpecLog ==
    InitRunning /\ InitJwt /\ InitBind /\ InitChat /\ ChatAtRest /\ InitAuth /\ AuthAtRest
    /\ InitLog /\ InitExt

\* two task services that run browser subprocesses
InitSpecPatrol ==
    /\ InitTask /\ TaskAtRest /\ InitJwt /\ InitBind /\ InitChat /\ ChatAtRest
    /\ InitAuth /\ AuthAtRest /\ InitLog /\ InitPatrol /\ InitTick /\ InitCap /\ InitSub
    /\ InitPersist

\* the login service under its polling loop
InitSpecPolling == Init /\ ChatAtRest /\ kind = "refresh"

\* the register service under the polling loop
InitSpecReplenish == Init /\ ChatAtRest /\ kind = "register"

\* a table of n bindings of other conversations, the first half of them made
\* before the clock of the model starts
OtherBindings(n) ==
    [i \in 1..n |-> [chat_id |-> "o" \o ToString(i), account_id |-> "a1",
                     session_id |-> 1,
                     created_at |-> IF 2 * i <= n THEN 0 ELSE 1]]

\* conversations are bound and dropped while the clock advances
EvictStep ==
    \/ \E c \in ChatIds, a \in BindAccounts, s \in {NoSession, 1} :
           set_binding(c, a, s)
    \/ \E c \in ChatIds : remove_binding(c)
    \/ bind_tick(1)

\* the binding table one or two entries below its limit
InitSpecEvict ==
    /\ max_bindings = ScaledMaxBindings
    /\ bindings \in {OtherBindings(ScaledMaxBindings - 1),
                      OtherBindings(ScaledMaxBindings - 2)}
    /\ dirty = FALSE
    /\ bind_now = 1
    /\ history = Mutation("none")
    /\ InitTask /\ TaskAtRest /\ InitJwt /\ InitChat /\ ChatAtRest
    /\ InitAuth /\ AuthAtRest /\ InitLog /\ InitPatrol /\ InitTick /\ InitSub
    /\ InitPersist
\* an open deployment receives one of the requests of ChatIdRequests
InitSpecChatId ==
    /\ InitTask /\ TaskAtRest /\ InitJwt /\ InitBind /\ InitChat /\ ChatAtRest
    /\ InitLog /\ InitExt
    /\ basic_config = [api_key |-> "", api_keys |-> <<>>]
    /\ http_request \in ChatIdRequests
    /\ key_config = NotVerified
    /\ chat_id_for_binding = <<>>

NextTask == TaskStep

NextLog == LogStep

NextCleanup == CleanupStep

NextPolling == PollingStep

NextPersist == PersistStep

NextSubprocess == SubprocessStep

NextAppend == AppendStep

NextPatrol == PatrolStep

NextReplenish == ReplenishStep

NextJwt == JwtStep

NextBind == BindStep

NextEvict == EvictStep

Next == ChatStep

NextAuth == AuthStep

NextSettings == ChatStep \/ SettingsStep

NextQuota == ChatStep \/ QuotaStep

NextElement == ChatStep \/ ErrorElementStep

NextParse == ChatStep \/ ParseErrorStep

SpecTask == InitSpecTask /\ [][NextTask]_vars

\* the steps the event loop takes on its own: a created worker runs, a task
\* body runs from one await to the next and ends, the worker resumes
WorkerSteps ==
    \/ run_worker
    \/ body_start
    \/ exec_done
    \/ sleep_done
    \/ cancel_delivered
    \/ run_one_task_end

\* the task service on an event loop that runs every ready task, with
\* executor calls and sleeps that return
SpecTaskLive == InitSpecTask /\ [][NextTask]_vars /\ WF_vars(WorkerSteps)

SpecHistory == InitSpecHistory /\ [][NextTask]_vars

SpecLog == InitSpecLog /\ [][NextLog]_vars

SpecCleanup == InitSpecCleanup /\ [][NextCleanup]_vars

SpecPolling == InitSpecPolling /\ [][NextPolling]_vars

\* the binding manager with its persist task and an enabled database
SpecPersist == InitSpecBind /\ [][NextPersist]_vars

SpecSubprocess == InitSpecSubprocess /\ [][NextSubprocess]_vars

SpecAppend == InitSpecAppend /\ [][NextAppend]_vars

SpecPatrol == InitSpecPatrol /\ [][NextPatrol]_vars

SpecReplenish == InitSpecReplenish /\ [][NextReplenish]_vars

SpecJwt == InitSpecJwt /\ [][NextJwt]_vars

SpecBind == InitSpecBind /\ [][NextBind]_vars
\* the binding table at its limit
SpecEvict == InitSpecEvict /\ [][NextEvict]_vars

Spec == InitSpec /\ [][Next]_vars
\* the orchestrator of a deployment that also has FAST keys
SpecFast == InitSpecFast /\ [][Next]_vars

SpecAuth == InitSpecAuth /\ [][NextAuth]_vars
\* the chat route on requests that carry conversation ids in several places
SpecChatId == InitSpecChatId /\ [][NextAuth]_vars

SpecSettings == InitSpecSettings /\ [][NextSettings]_vars
\* the orchestrator with an upstream that reports exhausted quota in-band
SpecQuota == InitSpecQuota /\ [][NextQuota]_vars
\* the orchestrator with an upstream that sends error elements of any kind
SpecElement == InitSpecElement /\ [][NextElement]_vars
\* the orchestrator with an upstream whose stream may fail to parse
SpecParse == InitSpecElement /\ [][NextParse]_vars

(***************************************************************************)
(* Claims about the task service                                           *)
(***************************************************************************)
StatusOf(s) == {i \in DOMAIN tasks : tasks[i].status = s}

\* C2: in every reachable state of a task service at most one task has status
\* running, whatever the interleaving of enqueue, cancel and the worker loop
\* (worker restarts included).
C2_AtMostOneRunning == Cardinality(StatusOf(RUNNING)) <= 1

\* a task runs under a worker that was started again after an earlier worker
\* had ended, while the service already holds a finished task
C2_Witness ==
    /\ Cardinality(StatusOf(RUNNING)) = 1
    /\ \E i \in DOMAIN tasks : tasks[i].status \in {SUCCESS, FAILED}
    /\ worker_task = "blocked"
    /\ workers_started = 2

AllowedTransitions ==
    {<<PENDING, RUNNING>>, <<RUNNING, SUCCESS>>, <<RUNNING, FAILED>>,
     <<RUNNING, CANCELLED>>, <<PENDING, CANCELLED>>}

\* C3: a task's status changes only along pending->running, running->success,
\* running->failed, running->cancelled and pending->cancelled, so a finished
\* status never changes again; a task that is not pending is never in the queue
\* once the worker looks at it, and a task cancelled while pending has left it.
C3_StatusTransitions ==
    /\ [][\A i \in DOMAIN tasks \cap DOMAIN tasks' :
             tasks[i].status # tasks'[i].status
                => <<tasks[i].status, tasks'[i].status>> \in AllowedTransitions]_vars
    /\ [](\A k \in 1..Len(pending_task_ids) :
             LET i == pending_task_ids[k]
             IN  i \in DOMAIN tasks => tasks[i].status = PENDING)

\* a task was cancelled while pending (and is out of the queue) and another
\* task has gone through running to a finished status
C3_Witness ==
    \E i, j \in DOMAIN tasks :
        /\ i # j
        /\ tasks[i].status = CANCELLED
        /\ tasks[i].logs[Len(tasks[i].logs)] = "task cancelled while pending"
        /\ \A k \in 1..Len(pending_task_ids) : pending_task_ids[k] # i
        /\ tasks[j].status \in {SUCCESS, FAILED}

\* C4: every task whose status is success, failed or cancelled has a non-null
\* finished_at.
C4_FinishedHasTime ==
    \A i \in DOMAIN tasks :
        tasks[i].status \in FinishedStatus => tasks[i].finished_at # NoTime

\* one task ended through the exception clause of the worker and another one
\* through the cancellation clause
C4_Witness ==
    \E i, j \in DOMAIN tasks :
        /\ tasks[i].status = FAILED /\ tasks[i].error
        /\ tasks[j].status = CANCELLED
        /\ tasks[j].logs[Len(tasks[j].logs)] = "task cancelled"

(***************************************************************************)
(* Claims about the JWT manager                                            *)
(***************************************************************************)
InRefresh == {p \in JwtProcs : jwt_pc[p] = "in_refresh"}

\* C5: for one account at most one execution of JWTManager._refresh is in
\* flight at any instant, and the process executing it holds the per-account
\* lock, whether it is a blocking refresh of get() or a background refresh.
C5_OneRefreshInFlight ==
    /\ Cardinality(InRefresh) <= 1
    /\ \A p \in InRefresh : jwt_lock = p

\* a blocking refresh is in flight on an expired token while a background
\* refresh spawned earlier waits for the lock
C5_Witness ==
    /\ jwt # NoJwt
    /\ \E c \in GetCalls : jwt_pc[c] = "in_refresh"
    /\ \E k \in 1..Len(jwt_waiters) : jwt_waiters[k] \in Background

(***************************************************************************)
(* Claims about the session-binding table                                  *)
(***************************************************************************)
\* the account and the session of what get_binding returns for ObservedChat
Got == get_binding_result(bindings, ObservedChat, bind_now)

\* C6: after set_binding(chat_id, a, s) with a session s, and as long as no
\* other call has changed or evicted the binding of chat_id and no more than
\* binding_ttl seconds have passed since its created_at, get_binding(chat_id)
\* returns account a and session s, whatever was done to other chat_ids in
\* between; after remove_binding(chat_id), get_binding(chat_id) returns None.
C6_SetGetRemove ==
    /\ (/\ history.op = "set_binding"
        /\ history.session_id # NoSession
        /\ bind_now - history.created_at <= binding_ttl)
       => /\ Got # <<>>
          /\ Got[1].account_id = history.account_id
          /\ Got[1].session_id = history.session_id
    /\ history.op = "remove_binding" => Got = <<>>

\* ObservedChat was bound to account a2 and session 2, a second chat_id was
\* bound after it, and the read happens exactly binding_ttl seconds after the
\* binding's created_at
C6_Witness ==
    /\ history.op = "set_binding"
    /\ history.session_id = 2
    /\ history.account_id = "a2"
    /\ bind_now - history.created_at = binding_ttl
    /\ Len(bindings) = 2
    /\ bindings[1].chat_id = ObservedChat
    /\ Got = <<[chat_id |-> ObservedChat, account_id |-> "a2",
                session_id |-> 2, created_at |-> history.created_at]>>

(***************************************************************************)
(* Claims about the request orchestrator                                   *)
(***************************************************************************)
Creating(r) ==
    requests[r].pc \in {"creating_bound", "creating_new",
                        "creating_switch", "creating_recover"}

\* C1: requests of one conversation create upstream sessions one at a time,
\* on the retry path too: no two of them are inside create_google_session
\* at the same time.
C1_SerializedCreation ==
    \A r1, r2 \in Reqs : Creating(r1) /\ Creating(r2) => r1 = r2

Failed(response) == response.status_code # 200 \/ response.error_frame

Retrying(r) == requests[r].pc = "generating" /\ requests[r].retry_count > 0

\* the part of C8 about the accounts: an attempt after a failure runs on an
\* account that has not failed in this request, with a session created on it
RetryExcludesFailed ==
    \A r \in Reqs :
        Retrying(r) =>
            /\ requests[r].account_manager \notin requests[r].failed_accounts
            /\ sessions[requests[r].current_session] = requests[r].account_manager
            /\ requests[r].current_retry_mode

\* C8: an attempt after a failure runs on an account outside the set of
\* accounts that failed in this request, on a new session of that account,
\* and sends the full transcript of the request's messages.
C8_RetrySendsFullTranscript ==
    /\ RetryExcludesFailed
    /\ \A r \in Reqs :
          Retrying(r) =>
              requests[r].current_text = build_full_context_text(requests[r].messages)

\* C9: every failed creation or generation attempt on an account is answered
\* by exactly one call of handle_http_error / handle_non_http_error on it.
C9_HandledExactlyOnce ==
    last_failure.account_id # NoAccount => last_failure.handled = 1

\* C10: a request that used up its retries, or the accounts left to retry
\* on, answers 503, 504 or 429, and never 500, another status, or 200 with
\* an error frame.
C10_ExhaustionStatus ==
    \A r \in Reqs :
        requests[r].response.cause \in {"exhausted", "unavailable"}
            => /\ requests[r].response.status_code \in {429, 503, 504}
               /\ ~requests[r].response.error_frame
\* C11: a request for a new conversation that finds no account to select
\* (every account is unavailable, or no account is configured) is answered
\* with 503, and no request is past the lock with its account unset
PastLock(r) ==
    requests[r].pc \in {"respond", "generating", "creating_recover", "creating_switch"}

C11_NoAccountGives503 ==
    \A r \in Reqs :
        /\ requests[r].response.cause \in {"pool", "unassigned"}
               => requests[r].response.status_code = 503
        /\ PastLock(r) => requests[r].account_manager # NoAccount

\* C12: a streamed response that ends well consists of exactly one role
\* chunk, the reasoning and content deltas in upstream order, the media
\* chunks in file order, exactly one chunk with finish_reason stop and then
\* [DONE], all chunks with the request's id; also after a retry
StreamedWell(r) == requests[r].stream /\ requests[r].response.cause = "success"

C12_FrameOrder ==
    \A r \in Reqs : StreamedWell(r) => requests[r].frames = stream_chat_generator(r)

\* without a retry the frames are the frames of the one attempt
C12_FrameOrderFirstAttempt ==
    \A r \in Reqs :
        StreamedWell(r) /\ requests[r].retry_count = 0
            => requests[r].frames = stream_chat_generator(r)

\* C13: a task on which cancel_task was called while it was running has
\* cancel_requested set and is running or cancelled: it never becomes
\* success or failed
C13_CancelledNotFailed ==
    \A id \in DOMAIN tasks :
        CancelCalls(tasks[id]) > 0
            => /\ tasks[id].cancel_requested
               /\ tasks[id].status \in {RUNNING, CANCELLED}

\* C14: a reset command clears the session of the conversation's binding and
\* keeps its account, a switch command removes the binding, and both are
\* answered with 200 without an upstream session being created; an ordinary
\* request that finds the binding as a reset leaves it creates the next
\* upstream session under the binding's account
BindingOf(b) == b[IndexOf(b, ChatId)]

\* the conversation as a reset leaves it: bound to account a, no session
ResetState(a) ==
    /\ IndexOf(bindings, ChatId) # 0
    /\ BindingOf(bindings).account_id = a
    /\ BindingOf(bindings).session_id = NoSession
    /\ global_session_cache[ChatId] = <<>>
    /\ session_lock = NoHolder

Answered(r, cause) ==
    /\ requests[r].pc = "idle"
    /\ requests'[r].response.cause = cause

OrdinaryArrival(r) ==
    /\ requests[r].pc = "idle"
    /\ requests'[r].pc # "idle"
    /\ requests'[r].response.cause \notin Commands

CommandEffect(r) ==
    /\ Answered(r, "reset") =>
           /\ requests'[r].response.status_code = 200
           /\ sessions' = sessions
           /\ global_session_cache'[ChatId] = <<>>
           /\ IndexOf(bindings', ChatId) = IndexOf(bindings, ChatId)
           /\ IndexOf(bindings, ChatId) # 0 =>
                  /\ BindingOf(bindings').account_id = BindingOf(bindings).account_id
                  /\ BindingOf(bindings').session_id = NoSession
    /\ Answered(r, "switch") =>
           /\ requests'[r].response.status_code = 200
           /\ sessions' = sessions
           /\ global_session_cache'[ChatId] = <<>>
           /\ IndexOf(bindings', ChatId) = 0

\* create_google_session for the bound account returned a session
BoundSessionCreated(r) ==
    /\ requests[r].pc = "creating_bound"
    /\ requests'[r].pc # "creating_bound"
    /\ Len(sessions') > Len(sessions)

NewSessionUnderBoundAccount(r) ==
    BoundSessionCreated(r) =>
        /\ sessions' = Append(sessions, requests[r].bound_account_id)
        /\ IndexOf(bindings', ChatId) # 0
        /\ BindingOf(bindings').account_id = requests[r].bound_account_id
        /\ BindingOf(bindings').session_id = Len(sessions')

IsFast(r) == requests[r].mode = FAST

\* a step of request r, which is a FAST request
FastStep(r) ==
    /\ requests'[r] # requests[r]
    /\ IsFast(r) \/ (requests[r].pc = "idle" /\ requests'[r].mode = FAST)

C15_FastLeavesBindings ==
    [][\A r \in Reqs :
          FastStep(r) =>
              /\ bindings' = bindings
              /\ dirty' = dirty
              /\ requests'[r].bound_account_id = NoAccount
              /\ requests'[r].bound_session_id = NoSession
              /\ global_session_cache'[ChatId] = global_session_cache[ChatId]
              /\ \A p \in Reqs \ {r} :
                     requests'[p].pc \notin {"idle", "done"}
                         => requests'[p].session_cache_key
                                # session_cache_key(r, FAST)]_vars

\* a FAST request was served with a session of its own while the
\* conversation is bound, and the binding is the one storage held
C15_Witness ==
    \E r \in Reqs :
        /\ requests[r].response.cause = "success"
        /\ global_session_cache[FastKey(r)] # <<>>
        /\ global_session_cache[ChatId] = <<>>
        /\ bindings \in LoadedBindings \ {<<>>}
        /\ ~dirty

(***************************************************************************)
(* Claims about API keys and chat ids                                      *)
(***************************************************************************)
TheKeyConfig == key_config.config[1]

\* the request was accepted under a configured MEMORY key, whose token it carried
AcceptedMemoryKey ==
    /\ key_config.status_code = 200
    /\ TheKeyConfig.mode = MEMORY
    /\ token_of(http_request.authorization) = <<TheKeyConfig.key>>

\* C16: the chat id of a request accepted under a MEMORY key with token t is
\* the digest of "apikey:" and t, whatever the messages, the client IP, the
\* conversation headers and the body hold
C16_ChatIdFromToken ==
    AcceptedMemoryKey /\ chat_id_for_binding # <<>>
        => chat_id_for_binding[1] = md5(<<"apikey:", TheKeyConfig.key>>)

\* the same for requests whose header is "Bearer <token>"
C16_ChatIdFromBearerToken ==
    (/\ AcceptedMemoryKey
     /\ chat_id_for_binding # <<>>
     /\ extract_bearer_token(http_request.authorization) # <<>>)
        => chat_id_for_binding[1] = md5(<<"apikey:", TheKeyConfig.key>>)

\* C17: verify_api_key accepts every request with the default record when no
\* key is configured; otherwise it rejects a request without a token with
\* 401, accepts a token that is the legacy key or the key of a list entry
\* with the mode of such an entry (MEMORY for the legacy key), and rejects
\* every other token with 401
ModesOf(token) ==
    (IF <<basic_config.api_key>> = token THEN {MEMORY} ELSE {})
    \cup {basic_config.api_keys[i].mode :
             i \in {j \in 1..Len(basic_config.api_keys) :
                        <<basic_config.api_keys[j].key>> = token}}

C17_VerifyApiKey ==
    key_config # NotVerified =>
        LET token == token_of(http_request.authorization)
        IN  IF basic_config.api_key = "" /\ basic_config.api_keys = <<>>
            THEN key_config = Accepted(ApiKeyConfig("default", MEMORY, "Open Access"))
            ELSE IF token = <<>>
            THEN key_config = Rejected
            ELSE IF ModesOf(token) # {}
            THEN /\ key_config.status_code = 200
                 /\ <<TheKeyConfig.key>> = token
                 /\ TheKeyConfig.mode \in ModesOf(token)
            ELSE key_config = Rejected

\* the legacy key was presented where the list holds it as a FAST key, and
\* the request was accepted as MEMORY
C17_Witness ==
    /\ key_config.status_code = 200
    /\ TheKeyConfig.remark = "Legacy Key"
    /\ ModesOf(token_of(http_request.authorization)) = {MEMORY, FAST}

(***************************************************************************)
(* Claims about the accounts                                               *)
(***************************************************************************)
\* C18: an account that is available has fewer errors than the failure
\* threshold
C18_AvailableBelowThreshold ==
    \A a \in DOMAIN accounts :
        accounts[a].is_available
            => accounts[a].error_count < ACCOUNT_FAILURE_THRESHOLD

\* C19: when the upstream answers an account's stream with an in-band error
\* element of code 429 and status RESOURCE_EXHAUSTED, the deadline of that
\* account's text quota cooldown is set, its error_count is unchanged, and
\* the request is retried on another account
InBandFailure == last_failure.in_band /\ last_failure.handled = 1

C19_InBandSetsQuotaCooldown ==
    InBandFailure => accounts[last_failure.account_id].quota_cooldowns

\* the part of C19 the code keeps: the failure is not counted, the account
\* leaves the selection, and the retry goes to another account
C19_InBandRetriedElsewhere ==
    [][\A r \in Reqs :
        LET a == requests[r].account_manager
        IN  /\ requests[r].pc = "generating"
            /\ requests'[r] # requests[r]
            /\ last_failure' # last_failure
            /\ InBandFailure'
            => /\ last_failure'.account_id = a
               /\ accounts'[a].error_count = accounts[a].error_count
               /\ accounts'[a].is_available = accounts[a].is_available
               /\ ~Eligible(accounts'[a])
               /\ requests'[r].pc = "creating_switch"
                      => requests'[r].new_account # a]_vars

\* a request answered from the second account after the in-band error of
\* the first
C19_Witness ==
    /\ InBandFailure
    /\ \E r \in Reqs :
           /\ requests[r].response.cause = "success"
           /\ requests[r].retry_count = 1
           /\ requests[r].switches = 1
           /\ \A o \in Reqs \ {r} : requests[o].pc = "idle"

(***************************************************************************)
(* Claims about the task history                                           *)
(***************************************************************************)
\* C20: in every reachable state of a task service at most MaxCompletedTasks
\* tasks with status success, failed or cancelled are retained, after any
\* sequence of enqueues, cancellations of pending tasks and task completions
C20_AtMostTenFinished == Cardinality(Finished(tasks)) <= MaxCompletedTasks

\* the part of C20 the code keeps: when tasks are dropped, MaxCompletedTasks
\* finished tasks stay and none of them finished before a dropped one
C20_CleanupKeepsNewest ==
    [][LET gone == DOMAIN tasks \ DOMAIN tasks'
       IN  gone # {}
           => /\ Cardinality(Finished(tasks')) = MaxCompletedTasks
              /\ \A i \in gone, j \in Finished(tasks') :
                     tasks[i].finished_at <= tasks'[j].finished_at]_vars

\* tasks of the history were dropped
C20_Evicted == \E i \in HistoryIds : i \notin DOMAIN tasks

(***************************************************************************)
(* Claims about the log buffer                                             *)
(***************************************************************************)
\* C21: after any sequence of log appends a task's log buffer holds at most
\* 120 entries, and they are the most recent ones in append order
C21_LogAtMost120 == \A i \in DOMAIN tasks : Len(tasks[i].logs) <= 120

\* the forwarded lines a log holds
Forwarded(l) == SelectSeq(l, LAMBDA m : m \in Lines)

\* what the code keeps of C21: the buffer holds at most LogCap entries, the
\* forwarded lines among them are the latest ones in the order they were
\* read, and nothing is dropped from a buffer that is not full
C21_LogNewestInOrder ==
    \A i \in DOMAIN tasks :
        LET l == tasks[i].logs
            f == Forwarded(l)
        IN  /\ Len(l) <= LogCap
            /\ Len(f) <= lines_read
            /\ \A k \in 1..Len(f) : f[k] = LineMessage(lines_read - Len(f) + k)
            /\ Len(l) < LogCap => Len(f) = lines_read

\* the buffer is full and lines were dropped from it
C21_Wrapped ==
    \E i \in DOMAIN tasks :
        Len(tasks[i].logs) = LogCap /\ lines_read > LogCap

(***************************************************************************)
(* Claims about the browser sweeps                                         *)
(***************************************************************************)
\* C22: no sweep for orphan browsers kills processes while a task of
\* another service is running, neither the patrol after a task nor the
\* cleanup that runs when a child has exited
C22_NoSweepWhileRunning ==
    last_sweep.killed # {} => last_sweep.running \ {last_sweep.by} = {}

\* what the code keeps of C22: the patrol kills nothing while any task
\* is running
C22_PatrolWaits ==
    last_sweep.sweep = "patrol" => last_sweep.running = {}

\* the patrol has killed a browser
C22_PatrolKilled == last_sweep.sweep = "patrol" /\ last_sweep.killed # {}

(***************************************************************************)
(* Claims about the refresh tasks                                          *)
(***************************************************************************)
ActiveTasks == {i \in DOMAIN tasks : tasks[i].status \in {PENDING, RUNNING}}

\* C23: no account id belongs to two refresh tasks that are both pending or
\* running, and no refresh task is created without an account
C23_NoAccountInTwoActiveTasks ==
    kind = "refresh" =>
        /\ \A i, j \in ActiveTasks :
               i # j => tasks[i].account_ids \cap tasks[j].account_ids = {}
        /\ \A i \in DOMAIN tasks : tasks[i].account_ids # {}

\* two refresh tasks are active at once, one of them running
C23_Witness ==
    /\ kind = "refresh"
    /\ Cardinality(ActiveTasks) = 2
    /\ \E i \in ActiveTasks : tasks[i].status = RUNNING

(***************************************************************************)
(* Claims about the replenish check                                        *)
(***************************************************************************)
Queued(n) ==
    /\ last_tick.task # NoTask
    /\ last_tick.count = n

\* C24: at every tick at which fewer than MIN_AVAILABLE_ACCOUNTS accounts are
\* available a register task for the deficit is queued, and none when there
\* are enough, whatever the register queue holds
C24_ReplenishDeficit ==
    IF last_tick.available < MIN_AVAILABLE_ACCOUNTS
    THEN Queued(MIN_AVAILABLE_ACCOUNTS - last_tick.available)
    ELSE last_tick.task = NoTask

\* what the code keeps of C24: the same, for a tick at which no register
\* task is running
C24_ReplenishUnlessRunning ==
    IF last_tick.available < MIN_AVAILABLE_ACCOUNTS /\ ~last_tick.running
    THEN Queued(MIN_AVAILABLE_ACCOUNTS - last_tick.available)
    ELSE last_tick.task = NoTask

\* a tick has queued a task behind a pending one
C24_QueuedBehindPending ==
    /\ last_tick.task \in DOMAIN tasks
    /\ \E i \in DOMAIN tasks :
           /\ i < last_tick.task
           /\ tasks[i].status = PENDING
           /\ tasks[last_tick.task].status = PENDING

(***************************************************************************)
(* Claims about the chat id of a request                                   *)
(***************************************************************************)
RequestHeaderId ==
    first_id([k \in DOMAIN http_request.headers |-> Str(http_request.headers[k])],
             header_keys)

RequestBodyId == first_id(http_request.body, body_keys)

RequestMetadataId ==
    LET metadata == dict_get(http_request.body, "metadata", Dict(EmptyDict))
    IN  IF metadata.type = "dict" THEN first_id(metadata.value, body_keys) ELSE 0

NoBearerNoHeader ==
    /\ extract_bearer_token(http_request.authorization) = <<>>
    /\ RequestHeaderId = 0

\* the fingerprint of the request's messages
RequestFingerprints ==
    {generate_chat_id_from_messages(http_request.messages, http_request.client_ip, time) :
         time \in Times}

\* C25: the chat id of a request is the digest of its Bearer token, else its
\* first conversation header that is not blank, else the first conversation
\* field of its body that is not blank, else the first one of the body's
\* metadata, else the fingerprint of its messages
C25_StrictPriority ==
    chat_id_for_binding # <<>>
        => \E time \in Times :
               chat_id_for_binding[1] =
                   extract_chat_id(http_request.messages, http_request.client_ip,
                                   http_request.authorization, http_request.headers,
                                   http_request.body, time)

\* what the code keeps of C25: the token, then the headers, decide, and a
\* request with neither gets the fingerprint whatever its body holds
C25_TokenThenHeaderThenFingerprint ==
    chat_id_for_binding # <<>>
        => IF extract_bearer_token(http_request.authorization) # <<>>
           THEN chat_id_for_binding[1] =
                    md5(<<"apikey:", extract_bearer_token(http_request.authorization)[1]>>)
           ELSE IF RequestHeaderId # 0
           THEN chat_id_for_binding[1] =
                    <<strip(http_request.headers[header_keys[RequestHeaderId]])>>
           ELSE chat_id_for_binding[1] \in RequestFingerprints

\* a request whose only conversation id is in its body got the fingerprint
C25_BodyIdIgnored ==
    /\ chat_id_for_binding # <<>>
    /\ NoBearerNoHeader
    /\ RequestBodyId # 0
    /\ chat_id_for_binding[1] \in RequestFingerprints

\* the fingerprint of a multimodal first user message behind a system prompt
\* or of a long one is the digest of the IP, the role and at most
\* FINGERPRINT_CHARS characters of the text
C25_FingerprintOfText ==
    (/\ chat_id_for_binding # <<>>
     /\ NoBearerNoHeader
     /\ http_request.messages # <<>>
     /\ http_request.messages[1].role = "user")
        => LET content == http_request.messages[1].content
               text == IF content.type = "list"
                       THEN join_text_parts(content.value)
                       ELSE content.value
           IN  /\ chat_id_for_binding[1][6] = prefix(strip(text), FINGERPRINT_CHARS)
               /\ Len(chat_id_for_binding[1][6]) <= FINGERPRINT_CHARS
               /\ chat_id_for_binding[1][2] = http_request.client_ip
               /\ chat_id_for_binding[1][4] = "user"

(***************************************************************************)
(* Claims about JWTManager.get                                             *)
(***************************************************************************)
\* the step is the call of get() by c
Calls(c) == jwt_pc[c] = "idle" /\ jwt_pc'[c] # "idle"

\* the step is the return of a token to c
Returns(c) ==
    /\ jwt_ret[c] = NoReturn
    /\ jwt_ret'[c] \notin {NoReturn, RefreshError}

\* C26: a get() that finds no token or an expired one does not return at the
\* call but waits for the lock or refreshes under it, and the token it gets
\* was refreshed after the call; one that finds a token in its last
\* EarlyRefresh seconds and no background refresh returns it at once and
\* spawns a background refresh; one that finds a token further from its
\* expiry returns it at once and spawns nothing.  The expiry of a returned
\* token is after the time of the call.
C26_GetCases ==
    [][\A c \in GetCalls :
          /\ Calls(c) =>
                 IF jwt = NoJwt \/ now >= expires
                 THEN /\ jwt_ret'[c] = NoReturn
                      /\ \/ jwt_pc'[c] = "in_refresh" /\ jwt_lock' = c
                         \/ jwt_pc'[c] = "wait_lock" /\ jwt_lock # NoHolder
                      /\ jwt_pc'[BackgroundOf(c)] = "idle"
                 ELSE /\ jwt_ret'[c] = jwt
                      /\ jwt_pc'[c] = "done"
                      /\ jwt_pc'[BackgroundOf(c)] =
                             IF now > expires - EarlyRefresh /\ ~refreshing
                             THEN "created" ELSE "idle"
                      /\ UNCHANGED <<jwt, expires, jwt_lock>>
          /\ Returns(c) =>
                 /\ jwt_ret'[c] = jwt'
                 /\ current_time'[c] < expires'
                 /\ ~Calls(c) => expires' >= current_time[c] + JwtLifetime]_vars

\* the three cases have happened: call 1 blocked and got the token of its
\* refresh, a later call got the cached token and spawned nothing, and a
\* call in the last seconds of the token got it and spawned a refresh
C26_Witness ==
    \E c1, c2, c3 \in GetCalls :
        /\ current_time[c1] < current_time[c2]
        /\ current_time[c2] < current_time[c3]
        /\ jwt_ret[c1] = 1 /\ jwt_ret[c2] = 1 /\ jwt_ret[c3] = 1
        /\ current_time[c2] <= expires - EarlyRefresh
        /\ current_time[c3] > expires - EarlyRefresh
        /\ jwt_pc[BackgroundOf(c1)] = "idle"
        /\ jwt_pc[BackgroundOf(c2)] = "idle"
        /\ jwt_pc[BackgroundOf(c3)] = "created"

(***************************************************************************)
(* Claims about set_binding                                                *)
(***************************************************************************)
\* the step is set_binding(c, a, s) on a chat_id that has a binding
Rebinds(c, a, s) ==
    /\ set_binding(c, a, s)
    /\ IndexOf(bindings, c) # 0
    /\ IndexOf(bindings', c) # 0

OldBinding(c) == bindings[IndexOf(bindings, c)]
NewBinding(c) == bindings'[IndexOf(bindings', c)]

\* C27: set_binding on a chat_id that has a binding keeps the created_at of
\* the binding, and when it is called with another account and without a
\* session_id it keeps the session_id of the binding
C27_KeepsPriorSession ==
    [][\A c \in ChatIds, a \in BindAccounts, s \in Sessions \cup {NoSession} :
          Rebinds(c, a, s) =>
              /\ NewBinding(c).created_at = OldBinding(c).created_at
              /\ (s = NoSession /\ OldBinding(c).account_id # a)
                     => NewBinding(c).session_id = OldBinding(c).session_id]_vars

\* C27 as the code has it: set_binding on a chat_id that has a binding keeps
\* the created_at of the binding and writes the account; it writes the
\* session_id of the call, and without one it keeps the session_id of the
\* binding when the account is the binding's and leaves the binding without
\* a session when the account is another
C27_KeepsSessionOfSameAccount ==
    [][\A c \in ChatIds, a \in BindAccounts, s \in Sessions \cup {NoSession} :
          Rebinds(c, a, s) =>
              /\ NewBinding(c).created_at = OldBinding(c).created_at
              /\ NewBinding(c).account_id = a
              /\ NewBinding(c).session_id =
                     IF s # NoSession THEN s
                     ELSE IF OldBinding(c).account_id = a
                     THEN OldBinding(c).session_id
                     ELSE NoSession]_vars

\* a set_binding without session_id, made after the binding was created,
\* has left the binding with its session and its created_at
C27_Witness ==
    /\ history.op = "set_binding"
    /\ history.session_id = NoSession
    /\ IndexOf(bindings, ObservedChat) # 0
    /\ bindings[IndexOf(bindings, ObservedChat)].session_id # NoSession
    /\ bindings[IndexOf(bindings, ObservedChat)].account_id = history.account_id
    /\ bindings[IndexOf(bindings, ObservedChat)].created_at < bind_now

(***************************************************************************)
(* Claims about the size of the binding table                              *)
(***************************************************************************)
\* the step is set_binding(c, a, s)
Sets(c) == \E a \in BindAccounts, s \in Sessions \cup {NoSession} : set_binding(c, a, s)

RemovedBySet == {i \in 1..Len(bindings) : bindings[i].chat_id \notin BoundChats(bindings')}

\* C28: after set_binding the table holds at most max_bindings entries; a
\* set_binding that takes the table over max_bindings removes a tenth of
\* its entries, none of them newer than an entry that stays, and not the
\* entry it wrote; any other set_binding removes nothing
C28_EvictsOldestTenth ==
    [][\A c \in ChatIds :
          Sets(c) =>
              /\ Len(bindings') <= max_bindings
              /\ c \in BoundChats(bindings')
              /\ IF c \notin BoundChats(bindings) /\ Len(bindings) + 1 > max_bindings
                 THEN /\ Cardinality(RemovedBySet) = (Len(bindings) + 1) \div 10
                      /\ Len(bindings') = Len(bindings) + 1 - Cardinality(RemovedBySet)
                      /\ \A i \in RemovedBySet, j \in 1..Len(bindings') :
                             bindings[i].created_at <= bindings'[j].created_at
                 ELSE RemovedBySet = {}]_vars

\* the table was at its limit, a set_binding has removed two of the
\* bindings made at time 0 and kept the one it wrote
C28_Witness ==
    /\ Len(bindings) = max_bindings - 1
    /\ history.op = "set_binding"
    /\ ObservedChat \in BoundChats(bindings)
    /\ "o1" \notin BoundChats(bindings)
    /\ "o2" \notin BoundChats(bindings)
    /\ "o3" \in BoundChats(bindings)

(***************************************************************************)
(* Claims about the session of an upstream call                            *)
(***************************************************************************)
\* r has its upstream call in flight
Generating(r) == requests[r].pc = "generating" /\ requests[r].mode = MEMORY

\* C29: the upstream call of a memory-mode request runs on a session that was
\* created under the account whose JWT authenticates the call
C29_SessionOfOwnAccount ==
    \A r \in Reqs :
        Generating(r) => sessions[requests[r].current_session] = requests[r].account_manager

\* what the code keeps of C29: the upstream call runs on the session that the
\* shared cache entry held when the attempt read it
C29_SessionOfCacheEntry ==
    [][\A r \in Reqs :
          (~Generating(r) /\ Generating(r)')
              => /\ cached(World, r)' # <<>>
                 /\ requests'[r].current_session = cached(World, r)'[1].session_id]_vars

(***************************************************************************)
(* Claims about error elements in the stream                               *)
(***************************************************************************)
\* the latest stream of r held an error element
SawErrorElement(r) == requests[r].error_info # <<>>

\* C30: an attempt whose stream held an error element, whatever its code,
\* does not end on the success path
C30_ErrorElementFailsAttempt ==
    \A r \in Reqs :
        SawErrorElement(r) => requests[r].response.cause # "success"

\* what the code keeps of C30: an attempt whose stream held an element with
\* code 429 or status RESOURCE_EXHAUSTED does not end on the success path
C30_QuotaElementFailsAttempt ==
    \A r \in Reqs :
        (/\ SawErrorElement(r)
         /\ \/ requests[r].error_info[1].code = 429
            \/ requests[r].error_info[1].status = RESOURCE_EXHAUSTED)
            => requests[r].response.cause # "success"

\* a first attempt whose stream held an element with code 500 has ended on
\* the success path
C30_ErrorElementIgnored ==
    \E r \in Reqs :
        /\ SawErrorElement(r)
        /\ requests[r].error_info[1].code = 500
        /\ requests[r].response.cause = "success"
        /\ requests[r].retry_count = 0

(***************************************************************************)
(* Claims about streams that fail to parse                                 *)
(***************************************************************************)
\* the latest stream of r failed to parse
ParseFailed(r) == requests[r].parse_error

\* C31: an attempt whose stream failed to parse does not end on the success
\* path, whether or not content was produced before the error
C31_ParseErrorFailsAttempt ==
    \A r \in Reqs : ParseFailed(r) => requests[r].response.cause # "success"

\* what the code keeps of C31: an attempt whose stream failed to parse ends
\* on the success path only with the finish chunk and [DONE] behind content
\* it has sent, and otherwise fails and is retried or ends the request
C31_ParseErrorWithoutContentFails ==
    \A r \in Reqs :
        (ParseFailed(r) /\ requests[r].response.cause = "success" /\ requests[r].stream)
            => LET f == requests[r].frames
               IN  /\ Len(f) >= 3
                   /\ f[Len(f)] = DoneFrame
                   /\ f[Len(f) - 2].delta # <<>>
                   /\ f[Len(f) - 2].delta[1] = "content"

\* a first attempt whose stream failed to parse behind its content has
\* ended on the success path, [DONE] sent and no retry made
C31_ParseErrorIgnored ==
    \E r \in Reqs :
        /\ ParseFailed(r)
        /\ requests[r].stream
        /\ requests[r].response.cause = "success"
        /\ requests[r].retry_count = 0
        /\ requests[r].frames[Len(requests[r].frames)] = DoneFrame

\* a first attempt whose stream failed to parse before any content was
\* retried on another account
C31_ParseErrorRetried ==
    \E r \in Reqs :
        /\ ParseFailed(r)
        /\ requests[r].pc = "creating_switch"
        /\ requests[r].retry_count = 1

(***************************************************************************)
(* Claims about the progress of the queue                                  *)
(***************************************************************************)
IsPending(id) == id \in DOMAIN tasks /\ tasks[id].status = PENDING

\* C32: a pending task is eventually started or cancelled while pending
C32_PendingEventuallyStarted ==
    \A id \in 1..MaxTasks : IsPending(id) ~> ~IsPending(id)

\* the part of C32 about the worker: a queue that is not empty has a live
\* worker
C32_QueueHasWorker ==
    pending_task_ids # <<>> => worker_task \in {"scheduled", "blocked"}

\* what the code keeps of C32: a queue that is not empty has a live worker
\* unless the worker was ended by an exception of its own
C32_QueueHasWorkerUnlessCrashed ==
    pending_task_ids # <<>> => worker_task \in {"scheduled", "blocked", "crashed"}

\* the worker has ended with an exception and left a pending task behind
C32_QueueLeftBehind ==
    /\ worker_task = "crashed"
    /\ \E id \in 1..MaxTasks : IsPending(id) /\ pending_task_ids = <<id>>

(***************************************************************************)
(* Claims about the cooperative cancel of _append_log                      *)
(***************************************************************************)
\* the cancellation guard prefixes
GuardPrefixes ==
    {words["cancel requested:"], words["task cancelled"],
     words["login task cancelled:"], words["register task cancelled:"]}

HasGuardPrefix(message) ==
    \E x \in GuardPrefixes :
        Len(words[message]) >= Len(x) /\ SubSeq(words[message], 1, Len(x)) = x

\* C33: a call of _append_log records its entry, and it raises
\* TaskCancelledError exactly when cancel_requested is set on the task and the
\* message starts with none of the guard prefixes
C33_AppendLogRaises ==
    last_append # NoAppend =>
        /\ last_append.recorded
        /\ last_append.raised <=>
               (last_append.cancel_requested /\ ~HasGuardPrefix(last_append.message))

\* cancel_requested stays set on a task
C33_CancelRequestedStays ==
    [][\A id \in DOMAIN tasks :
          tasks[id].cancel_requested => tasks'[id].cancel_requested]_vars

\* after cancel_task a guarded message was appended without an exception and
\* an unguarded one raised
C33_Witness ==
    /\ last_append.cancel_requested
    /\ last_append.raised
    /\ last_append.message = "cancel requested"
    /\ Len(tasks[1].logs) = 3
    /\ tasks[1].logs[2] = "task cancelled while pending: r"

(***************************************************************************)
(* Claims about run_browser_in_subprocess                                  *)
(***************************************************************************)
\* C34: when run_browser_in_subprocess returns after it started a child, the
\* child has exited or was killed together with what it started, the orphan
\* sweep has run exactly once, and on the timeout and cancel paths the result
\* has success = false
C34_ReturnLeavesNoChild ==
    (run.pc = "returned" /\ run.child # "none") =>
        /\ \/ run.child = "exited"
           \/ run.child = "killed" /\ run.descendants # "running"
        /\ run.sweeps = 1
        /\ run.path \in {"timeout", "cancel"} => run.result = "failure"

\* the sweep runs once also when the call is left by an exception
C34_SweepOnEveryExit ==
    (run.pc \in {"returned", "raised"} /\ run.child # "none") => run.sweeps = 1

\* the cancel path with a log callback that raised: the child and its browser
\* were killed
C34_Witness ==
    /\ run.pc = "returned"
    /\ run.path = "cancel"
    /\ run.cleanup_reason = "manage_exception"
    /\ run.child = "killed"
    /\ run.descendants = "killed"
    /\ run.sweeps = 1

\* the call was left by an exception of log_thread.start() with the child
\* still running
C34_RaisedWithLiveChild ==
    run.pc = "raised" /\ run.child = "running"

(***************************************************************************)
(* Claims about the binding after a successful request                     *)
(***************************************************************************)
\* the step in which a memory-mode request ends with success
Succeeds(r) ==
    /\ requests[r].pc # "done"
    /\ requests[r].mode = MEMORY
    /\ requests'[r].pc = "done"
    /\ requests'[r].response.cause = "success"

\* no other request has arrived
Alone(r) == \A q \in Reqs \ {r} : requests[q].pc = "idle"

\* the binding of the conversation names account a and session s
Binds(b, a, s) ==
    /\ IndexOf(b, ChatId) # 0
    /\ BindingOf(b).account_id = a
    /\ BindingOf(b).session_id = s

\* C35: when a memory-mode request ends with success, the binding of its
\* chat_id names the account and the upstream session that served it (here
\* for a request that no other request runs beside)
C35_BindingNamesServer ==
    [][\A r \in Reqs :
          (Succeeds(r) /\ Alone(r))
              => Binds(bindings', requests[r].account_manager,
                       requests[r].current_session)]_vars

\* what the code keeps of C35: the binding names the server of a request that
\* succeeded at its first attempt
C35_BindingNamesFirstServer ==
    [][\A r \in Reqs :
          (Succeeds(r) /\ Alone(r) /\ requests[r].retry_count = 0)
              => Binds(bindings', requests[r].account_manager,
                       requests[r].current_session)]_vars

\* the session cache names the server of a request that ran alone, after a
\* failover too
C35_CacheNamesServer ==
    [][\A r \in Reqs :
          (Succeeds(r) /\ Alone(r))
              => global_session_cache'[ChatId] =
                     <<[account_id |-> requests[r].account_manager,
                        session_id |-> requests[r].current_session]>>]_vars

(***************************************************************************)
(* Claims about the order of the tasks                                     *)
(***************************************************************************)
CancelledWhilePending(t) ==
    \E k \in 1..Len(t.logs) : t.logs[k] = "task cancelled while pending"

\* the task was taken by the worker
Started(t) == t.status # PENDING /\ ~CancelledWhilePending(t)

\* C36: tasks are started in the order of their ids, which is the order in
\* which they were enqueued: when a task has been started, every older task
\* that was not cancelled while pending has been started and has left running
C36_StartedInOrder ==
    \A i, j \in DOMAIN tasks :
        (i < j /\ Started(tasks[j]) /\ ~CancelledWhilePending(tasks[i]))
            => Started(tasks[i]) /\ tasks[i].status # RUNNING

\* the second task runs and the first, taken by the worker before it, has ended
C36_Witness ==
    /\ DOMAIN tasks = {1, 2}
    /\ tasks[1].status \in FinishedStatus
    /\ Started(tasks[1])
    /\ tasks[2].status = RUNNING
    /\ tasks[2].logs[2] = "task started"
    /\ tasks[1].finished_at # NoTime

C37_CleanMeansStoredUncancelled ==
    (~dirty /\ persist_pc = "sleeping") => store = bindings

\* the flag is false from the copy of the table on, while the write is in
\* flight
C37_CleanWhileWriting ==
    persist_pc = "writing" /\ ~dirty /\ store # bindings

\* the persist task has ended, the flag is false and a binding is missing in
\* the store
C37_LostAtShutdown ==
    /\ persist_pc = "stopped"
    /\ ~dirty
    /\ bindings # <<>>
    /\ store = <<>>

(***************************************************************************)
(* Claims about the pause switch of the polling loop                       *)
(***************************************************************************)
\* C38: a turn of the polling loop taken while auto-refresh is paused
\* enqueues no refresh task and still runs the recycle and replenish check;
\* a resume from the paused state creates a check at once
C38_PausedLoopEnqueuesNothing ==
    /\ (last_poll.by = "loop" /\ last_poll.paused) => ~last_poll.enqueued
    /\ last_poll.by = "loop" => last_tick.available = last_poll.available

\* the resume part of C38: the step that clears the switch creates the check
C38_ResumeChecksAtOnce ==
    [][(auto_refresh_paused /\ ~auto_refresh_paused') => check_tasks' = check_tasks + 1]_vars

\* a paused turn with an expiring account and a deficit: no task exists
C38_Witness ==
    /\ last_poll.by = "loop"
    /\ last_poll.paused
    /\ last_poll.expiring # {}
    /\ last_tick.count = 1
    /\ tasks = <<>>
    /\ auto_refresh_paused

\* the check a resume created has enqueued a refresh task without a turn of
\* the loop
C38_ResumeWitness ==
    /\ last_poll.by = "resume"
    /\ last_poll.enqueued
    /\ last_tick = NoTick

(***************************************************************************)
(* Claims about the processes the sweeps kill                              *)
(***************************************************************************)
IsBrowser(p) == process_name(p.cmdline) \in {"chrome", "chromium"}

HasMarker(p) == has_automation_marker(p.cmdline) \/ p.env_marker

\* C39: a sweep stage kills a process only when it is browser-related and
\* carries an automation marker, in its command line or in its environment
C39_KillsMarkedBrowsersOnly ==
    killed_by # {} => (IsBrowser(process) /\ HasMarker(process))

\* the part of C39 about processes that are no browsers
C39_NonBrowserNeverKilled ==
    ~IsBrowser(process) => killed_by = {}

\* what the code keeps of C39: the global stage of _cleanup_orphan_browsers
\* kills browsers with a marker in their command line only
C39_GlobalStageKillsMarkedBrowsers ==
    "global" \in killed_by
        => (IsBrowser(process) /\ has_automation_marker(process.cmdline))

\* the patrol has killed a python process that carries the environment marker
C39_PatrolKillsMarkedNonBrowser ==
    /\ process_name(process.cmdline) = "python"
    /\ process.env_marker
    /\ "patrol" \in killed_by

\* the patrol has killed a browser without any marker
C39_PatrolKillsUnmarkedBrowser ==
    /\ process.cmdline = <<"chrome", "--type=renderer">>
    /\ ~process.env_marker
    /\ "patrol" \in killed_by

(***************************************************************************)
(* C40  A refresh that fails                                               *)
(***************************************************************************)

\* the answers of getoxsrf with which _refresh raises
RefreshFailures == RefreshOutcomes \ {"ok"}

\* C40: when _refresh fails, the cached token and its expiry stay as they
\* were and the lock leaves the process that refreshed; in the blocking path
\* the caller of get() receives the exception, in the background path no
\* caller of get() receives anything and _refreshing is False afterwards.
C40_FailedRefresh ==
    [][\A p \in JwtProcs : \A outcome \in RefreshFailures :
          refresh(p, outcome) =>
              /\ jwt' = jwt
              /\ expires' = expires
              /\ jwt_lock' # p
              /\ p \in GetCalls => jwt_ret'[p] = RefreshError
              /\ p \in Background => ~refreshing' /\ jwt_ret' = jwt_ret]_vars

\* C40: the flag and the lock are never left behind: _refreshing is set only
\* while a background task is inside _refresh, and the lock is held only by
\* a process that is inside _refresh or about to resume with it.
C40_FlagAndLockNotStuck ==
    /\ refreshing => \E b \in Background : jwt_pc[b] = "in_refresh"
    /\ jwt_lock # NoHolder => jwt_pc[jwt_lock] \in {"in_refresh", "granted"}

\* C40: one background task was ever created and it has ended, yet the token
\* is still the first one: its refresh failed.  The flag is down again and a
\* later get() holds the lock and is refreshing.
C40_Witness ==
    \E c \in GetCalls :
        /\ jwt_pc[BackgroundOf(c)] = "done"
        /\ \A d \in GetCalls \ {c} : jwt_pc[BackgroundOf(d)] = "idle"
        /\ jwt = 1
        /\ ~refreshing
        /\ \E d \in GetCalls : jwt_pc[d] = "in_refresh" /\ jwt_lock = d

\* C40: a get() whose blocking refresh failed has received the exception,
\* and a later get() has received a token.
C40_BlockingWitness ==
    \E c, d \in GetCalls :
        /\ jwt_ret[c] = RefreshError
        /\ jwt_ret[d] >= 1
        /\ current_time[d] > current_time[c]

====
